---- MODULE Spec2Model ----
(***************************************************************************)
(* Tree engines (Bst, Avl, RedBlack) of the tree-algorithm module together *)
(* with the controller calls that drive them.  Nodes live in a heap keyed  *)
(* by node identity, so in-place mutation, parent back-references and      *)
(* object identity tests (===) are modelled as the code performs them.     *)
(* Every engine function is an operator over a machine state S that        *)
(* threads the heap, tree.root and the Global fields through the call.     *)
(***************************************************************************)
EXTENDS Integers, Sequences, FiniteSets, TLC

\* ---------------------------------------------------------------- bounds
\* Largest key the add input offers (keys are 1..MaxKey).
MaxKey == 7
\* Largest node count the create input offers.
MaxCreate == 2
\* Largest number of nodes a tree may hold (cap on addClick).
MaxNodes == 10
\* Largest key the add input offers for a RedBlack tree in DeepSpec.
MaxDeepKey == 10
\* Number of keys the add input offers where trees are also created.
MaxAppKey == 3
\* Largest key the add input offers where the playback is followed action by
\* action.
MaxPlayKey == 4
\* Most calls of animate and enableNext that may be still to come when an
\* input is used.
MaxPending == 2
\* Largest node count the create input offers where keys are also added.
MaxAppCreate == 1

\* ------------------------------------------------------- program constants
\* Spread of the random offset in generateRandomTree: round(random*4 - 2).
MaxOffset == 2
\* Distance between the base keys of generateRandomTree: x * 5.
KeyStride == 5

Null == 0
NoKey == -1
Keys == 1..MaxKey
Kinds == {"Bst", "Avl", "RedBlack"}

VARIABLES
  heap,          \* node identity -> node object (value, left, right, ...)
  tree,          \* the tree object being operated: [kind, root]
  globalTree,    \* TRUE iff Global.tree refers to that tree object
  actionList,    \* Global.actionList
  deleteSpec,    \* Global.deleteSpec   (<<>> is null)
  rotationSpec,  \* Global.rotationSpec (<<>> is null)
  operation,     \* Global.operation
  inputDisabled, \* the .input elements are disabled
  arr,           \* generateRandomTree: keys still to insert
  creating,      \* control is inside generateRandomTree
  validator,     \* text of the create-, add- and delete-validation labels
  pending,       \* calls of animate and enableNext that are still to come
  present,       \* history: keys inserted and not yet deleted
  probe          \* history: observations of the last engine call

vars == <<heap, tree, globalTree, actionList, deleteSpec, rotationSpec,
          operation, inputDisabled, arr, creating, validator, pending,
          present, probe>>

\* ------------------------------------------------------------ node model
BstNode(value) ==
  [value |-> value, left |-> Null, right |-> Null,
   height |-> 0, parent |-> Null, colour |-> 0]

AvlNode(value) == [BstNode(value) EXCEPT !.height = 1]

\* Mutant: a new Red-Black node starts black.
RbNode_black(value) == [BstNode(value) EXCEPT !.parent = Null, !.colour = 0]

RbNode(value) == [BstNode(value) EXCEPT !.parent = Null, !.colour = 1]

Action(id, args) == [id |-> id, args |-> args]

NoTree == [kind |-> "none", root |-> Null]

EmptyHeap == [i \in {} |-> BstNode(0)]

Max(a, b) == IF a > b THEN a ELSE b

\* Reverse of a sequence, as Array.prototype.reverse.
reverse(s) == [i \in 1..Len(s) |-> s[Len(s) + 1 - i]]

\* ------------------------------------------------- pure tree functions
RECURSIVE Tree_getHeight(_, _)
Tree_getHeight(h, node) ==
  IF node = Null THEN 0
  ELSE LET leftHeight == Tree_getHeight(h, h[node].left)
           rightHeight == Tree_getHeight(h, h[node].right)
       IN Max(leftHeight, rightHeight) + 1

RECURSIVE Tree_findRecursive(_, _, _)
\* Mutant: the search gives up instead of going right.
Tree_findRecursive_noRight(h, node, value) ==
  IF node = Null THEN -1
  ELSE IF value < h[node].value THEN Tree_findRecursive(h, h[node].left, value)
  ELSE IF value > h[node].value THEN -1
  ELSE 1

Tree_findRecursive(h, node, value) ==
  IF node = Null THEN -1
  ELSE IF value < h[node].value THEN Tree_findRecursive(h, h[node].left, value)
  ELSE IF value > h[node].value THEN Tree_findRecursive(h, h[node].right, value)
  ELSE 1

find(value) == Tree_findRecursive(heap, tree.root, value)

\* Values in the order inOrderPrintRecursive logs them.
RECURSIVE inOrder(_, _)
inOrder(h, node) ==
  IF node = Null THEN <<>>
  ELSE inOrder(h, h[node].left) \o <<h[node].value>> \o inOrder(h, h[node].right)

\* Node identities reachable from node through left/right links.
RECURSIVE nodesOf(_, _)
nodesOf(h, node) ==
  IF node = Null THEN {}
  ELSE {node} \cup nodesOf(h, h[node].left) \cup nodesOf(h, h[node].right)

isBlack(h, node) == node = Null \/ h[node].colour = 0

\* Node identities reachable from node, parent before children, left first.
RECURSIVE preorder(_, _)
preorder(h, node) ==
  IF node = Null THEN <<>>
  ELSE <<node>> \o preorder(h, h[node].left) \o preorder(h, h[node].right)

\* Object identities are opaque: the objects reachable from root are stored
\* under their preorder numbers.  A reference to an object that is not
\* reachable any more is kept as Dangling.
Dangling == -1

renumber(h, root) ==
  LET order == preorder(h, root)
      index(p) == IF p = Null THEN Null
                  ELSE IF \E i \in 1..Len(order) : order[i] = p
                  THEN CHOOSE i \in 1..Len(order) : order[i] = p
                  ELSE Dangling
  IN [i \in 1..Len(order) |->
        [h[order[i]] EXCEPT !.left = index(@), !.right = index(@),
                            !.parent = index(@)]]

\* ---------------------------------------------------- machine state S
\* S.h heap, S.root tree.root, S.al Global.actionList, S.ds Global.deleteSpec,
\* S.rs Global.rotationSpec, S.gt Global.tree is the operated tree,
\* S.ret value returned by the last call, S.err an exception was thrown.
\* History fields: S.log actions in emission order, S.clash a pending record
\* was written while one was outstanding, S.nrot Avl rotations performed,
\* S.nsplice nodes spliced out, S.stale deleteFix was entered with arguments
\* other than a child slot of the tree and the parent of that slot.
enter ==
  [h |-> heap, root |-> tree.root, al |-> actionList, ds |-> deleteSpec,
   rs |-> rotationSpec, gt |-> globalTree, ret |-> Null, err |-> FALSE,
   log |-> <<>>, clash |-> FALSE, nrot |-> 0, nsplice |-> 0,
   stale |-> FALSE]

\* new XNode(value): the fresh object takes the smallest unused identity.
newNode(S, rec) ==
  LET free == (1..(Cardinality(DOMAIN S.h) + 1)) \ DOMAIN S.h
      id == CHOOSE i \in free : \A j \in free : i <= j
  IN [S EXCEPT !.h = S.h @@ (id :> rec), !.ret = id]

pushAction(S, actionId, args) ==
  [S EXCEPT !.al = Append(@, Action(actionId, args)),
            !.log = Append(@, Action(actionId, args))]

pushActionEnd(S, message) ==
  [S EXCEPT !.al = Append(@, Action(32, <<message>>)),
            !.log = Append(@, Action(32, <<message>>))]

\* Mutant: the copy keeps the parent references of the live nodes.
getTreeCopy_withParents(S, given) ==
  IF ~given
  THEN [null |-> TRUE, root |-> Null, nodes |-> EmptyHeap]
  ELSE [null |-> FALSE, root |-> IF S.root = Null THEN Null ELSE 1,
        nodes |-> [i \in 1..Cardinality(nodesOf(S.h, S.root)) |->
                     renumber(S.h, S.root)[i]]]

\* JSON copy of the tree: the nodes reachable from root, parent set to null.
\* A null tree gives a null copy.
getTreeCopy(S, given) ==
  IF ~given
  THEN [null |-> TRUE, root |-> Null, nodes |-> EmptyHeap]
  ELSE [null |-> FALSE, root |-> IF S.root = Null THEN Null ELSE 1,
        nodes |-> [i \in 1..Cardinality(nodesOf(S.h, S.root)) |->
                     [renumber(S.h, S.root)[i] EXCEPT !.parent = Null]]]

checkInsertResize(S) ==
  IF S.gt /\ S.root # Null
  THEN LET a == Action(5, <<Tree_getHeight(S.h, S.root)>>)
       IN [S EXCEPT !.al = <<a>> \o @, !.log = Append(@, a)]
  ELSE S

\* Mutant: the record is finalized without the copy of the tree.
pushDelete_noCopy(S) ==
  IF S.ds = <<>> THEN S
  ELSE [pushAction(S, 5, S.ds) EXCEPT !.ds = <<>>]

pushDelete(S) ==
  IF S.ds = <<>> THEN S
  ELSE LET args == Append(S.ds, getTreeCopy(S, S.gt))
           s1 == pushAction(S, 5, args)
       IN [s1 EXCEPT !.ds = <<>>]

\* Mutant: the rotation record is not reset after it was finalized.
pushDeleteAndRotate_keepSpec(S, parentId) ==
  IF S.ds # <<>> THEN pushDelete(S)
  ELSE IF S.rs = <<>> THEN S
  ELSE LET actionId == S.rs[Len(S.rs)]
           args == SubSeq(S.rs, 1, Len(S.rs) - 1)
                     \o <<parentId, getTreeCopy(S, S.gt)>>
       IN pushAction(S, actionId, args)

pushDeleteAndRotate(S, parentId) ==
  IF S.ds # <<>> THEN pushDelete(S)
  ELSE IF S.rs = <<>> THEN S
  ELSE LET actionId == S.rs[Len(S.rs)]
           args == SubSeq(S.rs, 1, Len(S.rs) - 1)
                     \o <<parentId, getTreeCopy(S, S.gt)>>
           s1 == pushAction(S, actionId, args)
       IN [s1 EXCEPT !.rs = <<>>]

\* Assignment to Global.deleteSpec / Global.rotationSpec.
setDeleteSpec(S, v) ==
  [S EXCEPT !.ds = v, !.clash = @ \/ S.ds # <<>> \/ S.rs # <<>>]

setRotationSpec(S, v) ==
  [S EXCEPT !.rs = v, !.clash = @ \/ S.ds # <<>> \/ S.rs # <<>>,
            !.nrot = @ + 1]


\* Assignment node.field = v on the node object.
setField(S, node, field, v) == [S EXCEPT !.h[node][field] = v]

\* node.field = <call>, this.root = <call>, return v: S.ret holds what the
\* call returned.
setFieldRet(S, node, field) == [S EXCEPT !.h[node][field] = S.ret]

setRootRet(S) == [S EXCEPT !.root = S.ret]

setRet(S, v) == [S EXCEPT !.ret = v]

\* A property of null is read: TypeError.
throw(S) == [S EXCEPT !.err = TRUE]

valueOf(S, node) == IF node = Null THEN NoKey ELSE S.h[node].value

\* A node object placed in an action payload.  The player reads the node's
\* value through it; it is written as that value, which names the node.
ref(S, node) == S.h[node].value

\* Mutant: the left spine is not followed.
Tree_getMinValue_noWalk(S, node) ==
  setRet(pushAction(S, 9, <<S.h[node].value>>), S.h[node].value)

\* Mutant: the node the walk starts at gets no action.
Tree_getMinValue_quietStart(S, node) ==
  LET RECURSIVE walk(_, _)
      walk(s, n) ==
        IF s.h[n].left # Null
        THEN walk(pushAction(s, 9, <<s.h[s.h[n].left].value>>), s.h[n].left)
        ELSE setRet(s, s.h[n].value)
  IN walk(S, node)

Tree_getMinValue(S, node) ==
  LET RECURSIVE walk(_, _)
      walk(s, n) ==
        IF s.h[n].left # Null
        THEN walk(pushAction(s, 9, <<s.h[s.h[n].left].value>>), s.h[n].left)
        ELSE setRet(s, s.h[n].value)
  IN walk(pushAction(S, 9, <<S.h[node].value>>), node)

\* ------------------------------------------------------------------ Bst
\* In the engine operators a LET operator with parameter s is the rest of the
\* function body, run on the machine state s its first statements left.
RECURSIVE Bst_insertRecursive(_, _, _)
\* Mutant: the comparison is turned around.
Bst_insertRecursive_flipped(S, node, value) ==
  LET attach(s, field, tag) ==
        pushAction(setFieldRet(newNode(s, BstNode(value)), node, field),
                   tag, <<value, s.h[node].value>>)
      goLeft(s) == IF s.h[node].left = Null THEN attach(s, "left", 1)
                   ELSE Bst_insertRecursive(s, s.h[node].left, value)
      goRight(s) == IF s.h[node].right = Null THEN attach(s, "right", 2)
                    ELSE Bst_insertRecursive(s, s.h[node].right, value)
  IN IF value > S.h[node].value
     THEN goLeft(pushAction(S, 3, <<value, S.h[node].value>>))
     ELSE goRight(pushAction(S, 4, <<value, S.h[node].value>>))

\* Mutant: no descend action where the new node is appended.
Bst_insertRecursive_quietLeaf(S, node, value) ==
  LET attach(s, field, tag) ==
        pushAction(setFieldRet(newNode(s, BstNode(value)), node, field),
                   tag, <<value, s.h[node].value>>)
      goLeft(s) == IF s.h[node].left = Null THEN attach(s, "left", 1)
                   ELSE Bst_insertRecursive(s, s.h[node].left, value)
      goRight(s) == IF s.h[node].right = Null THEN attach(s, "right", 2)
                    ELSE Bst_insertRecursive(s, s.h[node].right, value)
  IN IF value < S.h[node].value
     THEN goLeft(IF S.h[node].left = Null THEN S
                 ELSE pushAction(S, 3, <<value, S.h[node].value>>))
     ELSE goRight(IF S.h[node].right = Null THEN S
                  ELSE pushAction(S, 4, <<value, S.h[node].value>>))

Bst_insertRecursive(S, node, value) ==
  LET attach(s, field, tag) ==
        pushAction(setFieldRet(newNode(s, BstNode(value)), node, field),
                   tag, <<value, s.h[node].value>>)
      goLeft(s) == IF s.h[node].left = Null THEN attach(s, "left", 1)
                   ELSE Bst_insertRecursive(s, s.h[node].left, value)
      goRight(s) == IF s.h[node].right = Null THEN attach(s, "right", 2)
                    ELSE Bst_insertRecursive(s, s.h[node].right, value)
  IN IF value < S.h[node].value
     THEN goLeft(pushAction(S, 3, <<value, S.h[node].value>>))
     ELSE goRight(pushAction(S, 4, <<value, S.h[node].value>>))

\* Returns in S.ret the node to go in the place of the node parameter.
RECURSIVE Bst_deleteRecursive(_, _, _)
\* Mutant: the pending delete is finalized before the result is linked in.
Bst_deleteRecursive_earlyCopy(S, node, value) ==
  LET \* pushDelete(); node.field = ...; return node
      up(s, field) == setRet(setFieldRet(pushDelete(s), node, field), node)
      \* node.value = getMinValue(node.right); pushAction(10, ...)
      swap(s) == pushAction(setField(s, node, "value", s.ret), 10,
                            <<S.h[node].value, s.ret>>)
      again(s) == Bst_deleteRecursive(s, s.h[node].right, s.h[node].value)
      child == IF S.h[node].left # Null THEN S.h[node].left
               ELSE S.h[node].right
      splice(s) == [setDeleteSpec(
                      pushAction(s, IF child = Null THEN 8 ELSE 7,
                                 <<S.h[node].value>>),
                      <<child # Null>>)
                    EXCEPT !.ret = child, !.nsplice = @ + 1]
  IN IF node = Null THEN setRet(S, Null)
     ELSE IF value < S.h[node].value
     THEN up(Bst_deleteRecursive(pushAction(S, 3, <<value, S.h[node].value>>),
                                 S.h[node].left, value), "left")
     ELSE IF value > S.h[node].value
     THEN up(Bst_deleteRecursive(pushAction(S, 4, <<value, S.h[node].value>>),
                                 S.h[node].right, value), "right")
     ELSE IF S.h[node].left # Null /\ S.h[node].right # Null
     THEN up(again(swap(Tree_getMinValue(pushAction(S, 6, <<value>>),
                                         S.h[node].right))), "right")
     ELSE splice(pushAction(S, 11, <<S.h[node].value>>))

Bst_deleteRecursive(S, node, value) ==
  LET \* node.field = Bst.deleteRecursive(...); pushDelete(); return node
      up(s, field) == setRet(pushDelete(setFieldRet(s, node, field)), node)
      \* node.value = getMinValue(node.right); pushAction(10, ...)
      swap(s) == pushAction(setField(s, node, "value", s.ret), 10,
                            <<S.h[node].value, s.ret>>)
      again(s) == Bst_deleteRecursive(s, s.h[node].right, s.h[node].value)
      child == IF S.h[node].left # Null THEN S.h[node].left
               ELSE S.h[node].right
      splice(s) == [setDeleteSpec(
                      pushAction(s, IF child = Null THEN 8 ELSE 7,
                                 <<S.h[node].value>>),
                      <<child # Null>>)
                    EXCEPT !.ret = child, !.nsplice = @ + 1]
  IN IF node = Null THEN setRet(S, Null)
     ELSE IF value < S.h[node].value
     THEN up(Bst_deleteRecursive(pushAction(S, 3, <<value, S.h[node].value>>),
                                 S.h[node].left, value), "left")
     ELSE IF value > S.h[node].value
     THEN up(Bst_deleteRecursive(pushAction(S, 4, <<value, S.h[node].value>>),
                                 S.h[node].right, value), "right")
     ELSE IF S.h[node].left # Null /\ S.h[node].right # Null
     THEN up(again(swap(Tree_getMinValue(pushAction(S, 6, <<value>>),
                                         S.h[node].right))), "right")
     ELSE splice(pushAction(S, 11, <<S.h[node].value>>))

\* this.root === null: the root is made and Global.actionList is replaced.
firstNode(S, rec) ==
  [setRootRet(newNode(S, rec)) EXCEPT !.al = <<Action(0, <<>>)>>,
                                     !.log = Append(@, Action(0, <<>>))]

\* pushActionEnd(message); Global.actionList.reverse(); pushAction(5, null)
endInsert(S, message) ==
  pushAction([pushActionEnd(S, message) EXCEPT !.al = reverse(@)], 5, <<>>)

\* Mutant: the list is not reversed at the end of a delete.
endDelete_noReverse(S, message) == pushActionEnd(S, message)

\* pushActionEnd(message); Global.actionList.reverse()
endDelete(S, message) == [pushActionEnd(S, message) EXCEPT !.al = reverse(@)]

Bst_insert(S, value) ==
  endInsert(IF S.root = Null THEN firstNode(S, BstNode(value))
            ELSE Bst_insertRecursive(S, S.root, value),
            "Insertion complete.")

\* Mutant: the result of deleteRecursive is not assigned to this.root.
Bst_delete_keepRoot(S, value) ==
  endDelete(pushDelete(Bst_deleteRecursive(S, S.root, value)),
            "Deletion complete.")

Bst_delete(S, value) ==
  endDelete(pushDelete(setRootRet(Bst_deleteRecursive(S, S.root, value))),
            "Deletion complete.")

\* ------------------------------------------------------------------ Avl
Avl_getHeight(h, node) == IF node = Null THEN 0 ELSE h[node].height

Avl_getBalance(h, node) ==
  Avl_getHeight(h, h[node].left) - Avl_getHeight(h, h[node].right)

\* Mutant: the height is the larger child height, without the + 1.
Avl_updateHeight_noPlusOne(S, node) ==
  [S EXCEPT !.h[node].height =
     Max(Avl_getHeight(S.h, S.h[node].left),
         Avl_getHeight(S.h, S.h[node].right))]

\* node.height = Math.max(getHeight(node.left), getHeight(node.right)) + 1
Avl_updateHeight(S, node) ==
  [S EXCEPT !.h[node].height =
     Max(Avl_getHeight(S.h, S.h[node].left),
         Avl_getHeight(S.h, S.h[node].right)) + 1]

\* Mutant: the heights are recomputed new root first, old root second.
Avl_leftRotate_heightsSwapped(S, leftNode) ==
  LET rightNode == S.h[leftNode].right
      subtree == S.h[rightNode].left
      record(s) == setRotationSpec(s, <<s.h[leftNode].value,
                                        s.h[rightNode].value,
                                        valueOf(s, subtree), 15>>)
  IN IF rightNode = Null THEN throw(S)
     ELSE setRet(record(Avl_updateHeight(Avl_updateHeight(
                   [S EXCEPT !.h[rightNode].left = leftNode,
                             !.h[leftNode].right = subtree],
                   rightNode), leftNode)),
                 rightNode)

\* Returns in S.ret the node to go in the place of leftNode.
Avl_leftRotate(S, leftNode) ==
  LET rightNode == S.h[leftNode].right
      subtree == S.h[rightNode].left
      record(s) == setRotationSpec(s, <<s.h[leftNode].value,
                                        s.h[rightNode].value,
                                        valueOf(s, subtree), 15>>)
  IN IF rightNode = Null THEN throw(S)
     ELSE setRet(record(Avl_updateHeight(Avl_updateHeight(
                   [S EXCEPT !.h[rightNode].left = leftNode,
                             !.h[leftNode].right = subtree],
                   leftNode), rightNode)),
                 rightNode)

\* Returns in S.ret the node to go in the place of rightNode.
Avl_rightRotate(S, rightNode) ==
  LET leftNode == S.h[rightNode].left
      subtree == S.h[leftNode].right
      record(s) == setRotationSpec(s, <<s.h[rightNode].value,
                                        s.h[leftNode].value,
                                        valueOf(s, subtree), 14>>)
  IN IF leftNode = Null THEN throw(S)
     ELSE setRet(record(Avl_updateHeight(Avl_updateHeight(
                   [S EXCEPT !.h[leftNode].right = rightNode,
                             !.h[rightNode].left = subtree],
                   rightNode), leftNode)),
                 leftNode)

\* Mutant: the first rotation is not finalized before the second one.
Avl_leftRightRotate_noFinalize(S, node) ==
  LET second(s) == IF s.err THEN s
                   ELSE Avl_rightRotate(setFieldRet(s, node, "left"), node)
  IN second(Avl_leftRotate(S, S.h[node].left))

\* node.left = Avl.leftRotate(node.left); pushDeleteAndRotate(node.value);
\* return Avl.rightRotate(node)
Avl_leftRightRotate(S, node) ==
  LET second(s) ==
        IF s.err THEN s
        ELSE Avl_rightRotate(
               pushDeleteAndRotate(setFieldRet(s, node, "left"),
                                   s.h[node].value), node)
  IN second(Avl_leftRotate(S, S.h[node].left))

\* node.right = Avl.rightRotate(node.right); pushDeleteAndRotate(node.value);
\* return Avl.leftRotate(node)
Avl_rightLeftRotate(S, node) ==
  LET second(s) ==
        IF s.err THEN s
        ELSE Avl_leftRotate(
               pushDeleteAndRotate(setFieldRet(s, node, "right"),
                                   s.h[node].value), node)
  IN second(Avl_rightRotate(S, S.h[node].right))

\* Mutant: a right-heavy node is rotated without a balance-violation action.
Avl_insertRebalance_quietRight(S, node, value) ==
  LET unbalanced(s) == pushAction(s, 13, <<s.h[node].value>>)
      check(s) ==
        IF Avl_getBalance(s.h, node) > 1
        THEN IF value < s.h[s.h[node].left].value
             THEN Avl_rightRotate(unbalanced(s), node)
             ELSE Avl_leftRightRotate(unbalanced(s), node)
        ELSE IF Avl_getBalance(s.h, node) < -1
        THEN IF value > s.h[s.h[node].right].value
             THEN Avl_leftRotate(s, node)
             ELSE Avl_rightLeftRotate(s, node)
        ELSE setRet(pushAction(s, 12, <<s.h[node].value>>), node)
  IN check(Avl_updateHeight(S, node))

\* Tail of insertRecursive: height update, balance check and rotations.
Avl_insertRebalance(S, node, value) ==
  LET unbalanced(s) == pushAction(s, 13, <<s.h[node].value>>)
      check(s) ==
        IF Avl_getBalance(s.h, node) > 1
        THEN IF value < s.h[s.h[node].left].value
             THEN Avl_rightRotate(unbalanced(s), node)
             ELSE Avl_leftRightRotate(unbalanced(s), node)
        ELSE IF Avl_getBalance(s.h, node) < -1
        THEN IF value > s.h[s.h[node].right].value
             THEN Avl_leftRotate(unbalanced(s), node)
             ELSE Avl_rightLeftRotate(unbalanced(s), node)
        ELSE setRet(pushAction(s, 12, <<s.h[node].value>>), node)
  IN check(Avl_updateHeight(S, node))

\* Returns in S.ret the node to go in the place of the node parameter.
RECURSIVE Avl_insertRecursive(_, _, _)
Avl_insertRecursive(S, node, value) ==
  LET nodeValue == S.h[node].value
      attach(field, tag1, tag2) ==
        pushAction(
          pushAction(
            checkInsertResize(
              setFieldRet(newNode(S, AvlNode(value)), node, field)),
            tag1, <<value, nodeValue>>),
          tag2, <<value, nodeValue>>)
      \* node.field = Avl.insertRecursive(...); pushDeleteAndRotate(nodeValue)
      up(s, field) ==
        IF s.err THEN s
        ELSE pushDeleteAndRotate(setFieldRet(s, node, field), nodeValue)
      rebalance(s) == IF s.err THEN s ELSE Avl_insertRebalance(s, node, value)
  IN rebalance(
       IF value < nodeValue
       THEN IF S.h[node].left = Null THEN attach("left", 3, 1)
            ELSE up(Avl_insertRecursive(
                      pushAction(S, 3, <<value, nodeValue>>),
                      S.h[node].left, value), "left")
       ELSE IF S.h[node].right = Null THEN attach("right", 4, 2)
            ELSE up(Avl_insertRecursive(
                      pushAction(S, 4, <<value, nodeValue>>),
                      S.h[node].right, value), "right"))

\* Tail of deleteRecursive: height update, balance check and rotations.
\* Mutant: the left-heavy cases of the single and the double rotation are
\* taken the wrong way round.
Avl_deleteRebalance_wrongCase(S, node) ==
  LET unbalanced(s) == pushAction(s, 13, <<s.h[node].value>>)
      check(s) ==
        IF Avl_getBalance(s.h, node) > 1
        THEN IF Avl_getBalance(s.h, s.h[node].left) < 0
             THEN Avl_rightRotate(unbalanced(s), node)
             ELSE Avl_leftRightRotate(unbalanced(s), node)
        ELSE IF Avl_getBalance(s.h, node) < -1
        THEN IF Avl_getBalance(s.h, s.h[node].right) <= 0
             THEN Avl_leftRotate(unbalanced(s), node)
             ELSE Avl_rightLeftRotate(unbalanced(s), node)
        ELSE setRet(pushAction(s, 12, <<s.h[node].value>>), node)
  IN check(Avl_updateHeight(S, node))

Avl_deleteRebalance(S, node) ==
  LET unbalanced(s) == pushAction(s, 13, <<s.h[node].value>>)
      check(s) ==
        IF Avl_getBalance(s.h, node) > 1
        THEN IF Avl_getBalance(s.h, s.h[node].left) >= 0
             THEN Avl_rightRotate(unbalanced(s), node)
             ELSE Avl_leftRightRotate(unbalanced(s), node)
        ELSE IF Avl_getBalance(s.h, node) < -1
        THEN IF Avl_getBalance(s.h, s.h[node].right) <= 0
             THEN Avl_leftRotate(unbalanced(s), node)
             ELSE Avl_rightLeftRotate(unbalanced(s), node)
        ELSE setRet(pushAction(s, 12, <<s.h[node].value>>), node)
  IN check(Avl_updateHeight(S, node))

\* Returns in S.ret the node to go in the place of the node parameter.
RECURSIVE Avl_deleteRecursive(_, _, _)
Avl_deleteRecursive(S, node, value) ==
  LET \* node.field = Avl.deleteRecursive(...);
      \* pushDeleteAndRotate(node.value); then the rebalancing tail
      up(s, field) ==
        IF s.err THEN s
        ELSE Avl_deleteRebalance(
               pushDeleteAndRotate(setFieldRet(s, node, field),
                                   s.h[node].value), node)
      \* node.value = getMinValue(node.right); pushAction(10, ...)
      swap(s) == pushAction(setField(s, node, "value", s.ret), 10,
                            <<S.h[node].value, s.ret>>)
      again(s) == Avl_deleteRecursive(s, s.h[node].right, s.h[node].value)
      child == IF S.h[node].left # Null THEN S.h[node].left
               ELSE S.h[node].right
      splice(s) == [setDeleteSpec(
                      pushAction(s, IF child = Null THEN 8 ELSE 7,
                                 <<S.h[node].value>>),
                      <<child # Null>>)
                    EXCEPT !.ret = child, !.nsplice = @ + 1]
  IN IF node = Null THEN setRet(S, Null)
     ELSE IF value < S.h[node].value
     THEN up(Avl_deleteRecursive(pushAction(S, 3, <<value, S.h[node].value>>),
                                 S.h[node].left, value), "left")
     ELSE IF value > S.h[node].value
     THEN up(Avl_deleteRecursive(pushAction(S, 4, <<value, S.h[node].value>>),
                                 S.h[node].right, value), "right")
     ELSE IF S.h[node].left # Null /\ S.h[node].right # Null
     THEN up(again(swap(Tree_getMinValue(pushAction(S, 6, <<value>>),
                                         S.h[node].right))), "right")
     ELSE splice(pushAction(S, 11, <<S.h[node].value>>))

Avl_insert(S, value) ==
  LET \* this.root = Avl.insertRecursive(...); pushDeleteAndRotate(null)
      up(s) == IF s.err THEN s
               ELSE pushDeleteAndRotate(setRootRet(s), NoKey)
      end(s) == IF s.err THEN s
                ELSE endInsert(s, "Insertion complete, tree is balanced.")
  IN end(IF S.root = Null THEN firstNode(S, AvlNode(value))
         ELSE up(Avl_insertRecursive(S, S.root, value)))

Avl_delete(S, value) ==
  LET end(s) ==
        IF s.err THEN s
        ELSE endDelete(pushDeleteAndRotate(setRootRet(s), NoKey),
                       "Deletion complete, tree is balanced.")
  IN end(Avl_deleteRecursive(S, S.root, value))

\* ------------------------------------------------------------- RedBlack
\* Mutant: the subtree moved under leftNode keeps its old parent.
RedBlack_leftRotate_staleParent(S, leftNode) ==
  LET rightNode == S.h[leftNode].right
      \* leftNode.right = rightNode.left
      s1 == setField(S, leftNode, "right", S.h[rightNode].left)
      reparentSubtree(s) == s
      reparentRight(s) == setField(s, rightNode, "parent", s.h[leftNode].parent)
      relink(s) ==
        IF s.h[leftNode].parent = Null THEN [s EXCEPT !.root = rightNode]
        ELSE IF leftNode = s.h[s.h[leftNode].parent].left
        THEN setField(s, s.h[leftNode].parent, "left", rightNode)
        ELSE setField(s, s.h[leftNode].parent, "right", rightNode)
      hang(s) == setField(setField(s, rightNode, "left", leftNode),
                          leftNode, "parent", rightNode)
      emit(s, parentValue, subtreeValue) ==
        pushAction(s, 15, <<s.h[leftNode].value, s.h[rightNode].value,
                            subtreeValue, parentValue, getTreeCopy(s, TRUE)>>)
  IN IF rightNode = Null THEN throw(S)
     ELSE emit(hang(relink(reparentRight(reparentSubtree(s1)))),
               valueOf(s1, s1.h[leftNode].parent),
               valueOf(s1, s1.h[rightNode].left))

RedBlack_leftRotate(S, leftNode) ==
  LET rightNode == S.h[leftNode].right
      \* leftNode.right = rightNode.left
      s1 == setField(S, leftNode, "right", S.h[rightNode].left)
      reparentSubtree(s) ==
        IF s.h[leftNode].right # Null
        THEN setField(s, s.h[leftNode].right, "parent", leftNode)
        ELSE s
      reparentRight(s) == setField(s, rightNode, "parent", s.h[leftNode].parent)
      relink(s) ==
        IF s.h[leftNode].parent = Null THEN [s EXCEPT !.root = rightNode]
        ELSE IF leftNode = s.h[s.h[leftNode].parent].left
        THEN setField(s, s.h[leftNode].parent, "left", rightNode)
        ELSE setField(s, s.h[leftNode].parent, "right", rightNode)
      hang(s) == setField(setField(s, rightNode, "left", leftNode),
                          leftNode, "parent", rightNode)
      emit(s, parentValue, subtreeValue) ==
        pushAction(s, 15, <<s.h[leftNode].value, s.h[rightNode].value,
                            subtreeValue, parentValue, getTreeCopy(s, TRUE)>>)
  IN IF rightNode = Null THEN throw(S)
     ELSE emit(hang(relink(reparentRight(reparentSubtree(s1)))),
               valueOf(s1, s1.h[leftNode].parent),
               valueOf(s1, s1.h[rightNode].left))

RedBlack_rightRotate(S, rightNode) ==
  LET leftNode == S.h[rightNode].left
      \* rightNode.left = leftNode.right
      s1 == setField(S, rightNode, "left", S.h[leftNode].right)
      reparentSubtree(s) ==
        IF s.h[rightNode].left # Null
        THEN setField(s, s.h[rightNode].left, "parent", rightNode)
        ELSE s
      reparentLeft(s) == setField(s, leftNode, "parent", s.h[rightNode].parent)
      relink(s) ==
        IF s.h[rightNode].parent = Null THEN [s EXCEPT !.root = leftNode]
        ELSE IF rightNode = s.h[s.h[rightNode].parent].right
        THEN setField(s, s.h[rightNode].parent, "right", leftNode)
        ELSE setField(s, s.h[rightNode].parent, "left", leftNode)
      hang(s) == setField(setField(s, leftNode, "right", rightNode),
                          rightNode, "parent", leftNode)
      emit(s, parentValue, subtreeValue) ==
        pushAction(s, 14, <<s.h[rightNode].value, s.h[leftNode].value,
                            subtreeValue, parentValue, getTreeCopy(s, TRUE)>>)
  IN IF leftNode = Null THEN throw(S)
     ELSE emit(hang(relink(reparentLeft(reparentSubtree(s1)))),
               valueOf(s1, s1.h[rightNode].parent),
               valueOf(s1, s1.h[leftNode].right))

\* Returns in S.ret the node that was inserted.
RECURSIVE RedBlack_insertRecursive(_, _, _)
\* Mutant: a key equal to the node's key goes left.
RedBlack_insertRecursive_equalLeft(S, node, value) ==
  LET \* node.field = new RbNode(value, node); checkInsertResize();
      \* pushAction(tag, ...); return node.field
      attach(s, field, tag) ==
        pushAction(
          checkInsertResize(
            setFieldRet(newNode(s, [RbNode(value) EXCEPT !.parent = node]),
                        node, field)),
          tag, <<value, s.h[node].value>>)
      goLeft(s) == IF s.h[node].left = Null THEN attach(s, "left", 1)
                   ELSE RedBlack_insertRecursive(s, s.h[node].left, value)
      goRight(s) == IF s.h[node].right = Null THEN attach(s, "right", 2)
                    ELSE RedBlack_insertRecursive(s, s.h[node].right, value)
  IN IF value <= S.h[node].value
     THEN goLeft(pushAction(S, 3, <<value, S.h[node].value>>))
     ELSE goRight(pushAction(S, 4, <<value, S.h[node].value>>))

RedBlack_insertRecursive(S, node, value) ==
  LET \* node.field = new RbNode(value, node); checkInsertResize();
      \* pushAction(tag, ...); return node.field
      attach(s, field, tag) ==
        pushAction(
          checkInsertResize(
            setFieldRet(newNode(s, [RbNode(value) EXCEPT !.parent = node]),
                        node, field)),
          tag, <<value, s.h[node].value>>)
      goLeft(s) == IF s.h[node].left = Null THEN attach(s, "left", 1)
                   ELSE RedBlack_insertRecursive(s, s.h[node].left, value)
      goRight(s) == IF s.h[node].right = Null THEN attach(s, "right", 2)
                    ELSE RedBlack_insertRecursive(s, s.h[node].right, value)
  IN IF value < S.h[node].value
     THEN goLeft(pushAction(S, 3, <<value, S.h[node].value>>))
     ELSE goRight(pushAction(S, 4, <<value, S.h[node].value>>))

\* Mutant: an inner child moves the pointer to its parent without the
\* rotation at the parent.
fixInsertCase_noInnerRotation(S, child, grandparent, side) ==
  LET other == IF side = "right" THEN "left" ELSE "right"
      uncle == S.h[grandparent][other]
      parent == S.h[child].parent
      \* red uncle: parent and uncle to black, grandparent to red
      recolourUp(s) ==
        pushAction(s, 20, <<<<ref(s, parent), 0>>, <<ref(s, uncle), 0>>,
                            <<ref(s, grandparent), 1>>>>)
      inner == child = S.h[parent][other]
      child2 == IF inner THEN parent ELSE child
      desc == IF inner THEN "was previously the parent"
              ELSE "same node as before"
      \* child.parent.colour = 0; grandparent.colour = 1
      recolour(s) == setField(setField(s, s.h[child2].parent, "colour", 0),
                              grandparent, "colour", 1)
      announce(s) ==
        IF grandparent = s.h[child2].parent
        THEN pushAction(s, 21, <<<<ref(s, grandparent), 1>>>>)
        ELSE pushAction(s, 22, <<<<ref(s, s.h[child2].parent), 0>>,
                                 <<ref(s, grandparent), 1>>>>)
      rotateGrandparent(s) ==
        IF side = "right" THEN RedBlack_leftRotate(s, grandparent)
        ELSE RedBlack_rightRotate(s, grandparent)
      rest(s) ==
        IF s.err THEN s
        ELSE setRet(rotateGrandparent(announce(recolour(s))), <<child2, desc>>)
  IN IF uncle # Null /\ S.h[uncle].colour = 1
     THEN setRet(recolourUp(setField(setField(setField(
                   S, parent, "colour", 0), uncle, "colour", 0),
                   grandparent, "colour", 1)),
                 <<grandparent, "was previously the grandparent">>)
     ELSE rest(S)

\* One pass of the while loop body of fixInsert for a parent that is the
\* right child (side = "right") or the left child (side = "left") of the
\* grandparent.  Returns <<new child, description>> in S.ret.
fixInsertCase(S, child, grandparent, side) ==
  LET other == IF side = "right" THEN "left" ELSE "right"
      uncle == S.h[grandparent][other]
      parent == S.h[child].parent
      \* red uncle: parent and uncle to black, grandparent to red
      recolourUp(s) ==
        pushAction(s, 20, <<<<ref(s, parent), 0>>, <<ref(s, uncle), 0>>,
                            <<ref(s, grandparent), 1>>>>)
      inner == child = S.h[parent][other]
      child2 == IF inner THEN parent ELSE child
      desc == IF inner THEN "was previously the parent"
              ELSE "same node as before"
      \* child.parent.colour = 0; grandparent.colour = 1
      recolour(s) == setField(setField(s, s.h[child2].parent, "colour", 0),
                              grandparent, "colour", 1)
      announce(s) ==
        IF grandparent = s.h[child2].parent
        THEN pushAction(s, 21, <<<<ref(s, grandparent), 1>>>>)
        ELSE pushAction(s, 22, <<<<ref(s, s.h[child2].parent), 0>>,
                                 <<ref(s, grandparent), 1>>>>)
      rotateGrandparent(s) ==
        IF side = "right" THEN RedBlack_leftRotate(s, grandparent)
        ELSE RedBlack_rightRotate(s, grandparent)
      rest(s) ==
        IF s.err THEN s
        ELSE setRet(rotateGrandparent(announce(recolour(s))), <<child2, desc>>)
  IN IF uncle # Null /\ S.h[uncle].colour = 1
     THEN setRet(recolourUp(setField(setField(setField(
                   S, parent, "colour", 0), uncle, "colour", 0),
                   grandparent, "colour", 1)),
                 <<grandparent, "was previously the grandparent">>)
     ELSE rest(IF ~inner THEN S
               ELSE IF side = "right" THEN RedBlack_rightRotate(S, child2)
               ELSE RedBlack_leftRotate(S, child2))

\* The while loop of fixInsert; returns the final child in S.ret.
RECURSIVE fixInsertLoop(_, _)
\* Mutant: the loop is never entered.
fixInsertLoop_skip(S, child) == setRet(S, child)

\* Mutant: the loop goes on when the pointer has reached the root.
fixInsertLoop_noBreak(S, child) ==
  LET parent == S.h[child].parent
      grandparent == S.h[parent].parent
      again(s, child2) == fixInsertLoop(s, child2)
      next(s) ==
        IF s.err THEN s
        ELSE again(pushAction(s, 23, <<s.h[s.ret[1]].value, s.ret[2]>>),
                   s.ret[1])
  IN IF parent = Null THEN throw(S)
     ELSE IF S.h[parent].colour # 1 THEN setRet(S, child)
     ELSE IF grandparent = Null THEN throw(S)
     ELSE next(fixInsertCase(S, child, grandparent,
                             IF parent = S.h[grandparent].right
                             THEN "right" ELSE "left"))

fixInsertLoop(S, child) ==
  LET parent == S.h[child].parent
      grandparent == S.h[parent].parent
      \* if (child === tree.root) { pushAction(17, [child]); break }
      again(s, child2) ==
        IF child2 = s.root
        THEN setRet(pushAction(s, 17, <<ref(s, child2)>>), child2)
        ELSE fixInsertLoop(s, child2)
      next(s) ==
        IF s.err THEN s
        ELSE again(pushAction(s, 23, <<s.h[s.ret[1]].value, s.ret[2]>>),
                   s.ret[1])
  IN IF parent = Null THEN throw(S)
     ELSE IF S.h[parent].colour # 1 THEN setRet(S, child)
     ELSE IF grandparent = Null THEN throw(S)
     ELSE next(fixInsertCase(S, child, grandparent,
                             IF parent = S.h[grandparent].right
                             THEN "right" ELSE "left"))

\* Mutant: a child of the root is left without its terminal action.
RedBlack_fixInsert_silent(S, newNode_) ==
  LET announce(s) ==
        IF s.h[s.ret].parent # Null /\ s.h[s.h[s.ret].parent].colour = 0
        THEN IF s.h[s.root].colour = 1
             THEN pushAction(s, 18, <<s.h[s.ret].value, ref(s, s.root)>>)
             ELSE pushAction(s, 19, <<s.h[s.ret].value>>)
        ELSE s
      blacken(s) == setField(s, s.root, "colour", 0)
      finish(s) == IF s.err THEN s ELSE blacken(announce(s))
  IN IF S.h[newNode_].parent = Null
     THEN setField(pushAction(S, 17, <<ref(S, newNode_)>>),
                   newNode_, "colour", 0)
     ELSE IF S.h[S.h[newNode_].parent].parent = Null
     THEN S
     ELSE finish(fixInsertLoop(S, newNode_))

\* Mutant: the root is not set to black after the loop.
RedBlack_fixInsert_rootKept(S, newNode_) ==
  LET announce(s) ==
        IF s.h[s.ret].parent # Null /\ s.h[s.h[s.ret].parent].colour = 0
        THEN IF s.h[s.root].colour = 1
             THEN pushAction(s, 18, <<s.h[s.ret].value, ref(s, s.root)>>)
             ELSE pushAction(s, 19, <<s.h[s.ret].value>>)
        ELSE s
      finish(s) == IF s.err THEN s ELSE announce(s)
  IN IF S.h[newNode_].parent = Null
     THEN setField(pushAction(S, 17, <<ref(S, newNode_)>>),
                   newNode_, "colour", 0)
     ELSE IF S.h[S.h[newNode_].parent].parent = Null
     THEN pushAction(S, 19, <<S.h[newNode_].value>>)
     ELSE finish(fixInsertLoop(S, newNode_))

RedBlack_fixInsert(S, newNode_) ==
  LET announce(s) ==
        IF s.h[s.ret].parent # Null /\ s.h[s.h[s.ret].parent].colour = 0
        THEN IF s.h[s.root].colour = 1
             THEN pushAction(s, 18, <<s.h[s.ret].value, ref(s, s.root)>>)
             ELSE pushAction(s, 19, <<s.h[s.ret].value>>)
        ELSE s
      \* tree.root.colour = 0
      blacken(s) == setField(s, s.root, "colour", 0)
      finish(s) == IF s.err THEN s ELSE blacken(announce(s))
  IN IF S.h[newNode_].parent = Null
     THEN setField(pushAction(S, 17, <<ref(S, newNode_)>>),
                   newNode_, "colour", 0)
     ELSE IF S.h[S.h[newNode_].parent].parent = Null
     THEN pushAction(S, 19, <<S.h[newNode_].value>>)
     ELSE finish(fixInsertLoop(S, newNode_))

\* One pass of the while loop body of deleteFix where node is the left
\* (side = "left") or right (side = "right") child slot of parent.
\* Returns <<parent, node>> for the next pass in S.ret.
deleteFixCase(S, parent, node, side) ==
  LET other == IF side = "left" THEN "right" ELSE "left"
      rotateToward(s, n) == IF side = "left" THEN RedBlack_leftRotate(s, n)
                            ELSE RedBlack_rightRotate(s, n)
      rotateAway(s, n) == IF side = "left" THEN RedBlack_rightRotate(s, n)
                          ELSE RedBlack_leftRotate(s, n)
      \* red sibling: sibling to black, parent to red, rotate at parent
      redSibling(s, sibling) ==
        rotateToward(
          pushAction(setField(setField(s, sibling, "colour", 0),
                              parent, "colour", 1),
                     27, <<<<ref(s, parent), 1>>, <<ref(s, sibling), 0>>>>),
          parent)
      \* both children of the sibling black: sibling to red, move up
      moveUp(s, sibling) ==
        setRet(pushAction(
                 pushAction(setField(s, sibling, "colour", 1),
                            28, <<<<ref(s, sibling), 1>>>>),
                 23, <<s.h[parent].value, "was previously the parent">>),
               <<s.h[parent].parent, parent>>)
      \* far child of the sibling black: near child to black, sibling to red,
      \* rotate at the sibling
      nearRed(s, sibling, near) ==
        rotateAway(
          setField(IF ~isBlack(s.h, near)
                   THEN pushAction(setField(s, near, "colour", 0), 30,
                                   <<<<ref(s, sibling), 1>>,
                                     <<ref(s, near), 0>>>>)
                   ELSE pushAction(s, 28, <<<<ref(s, sibling), 1>>>>),
                   sibling, "colour", 1),
          sibling)
      \* sibling takes the parent's colour, parent and far child to black,
      \* rotate at the parent, node = tree.root
      farRedEmit(s, sibling, far) ==
        IF ~isBlack(s.h, far)
        THEN pushAction(setField(s, far, "colour", 0), 31,
                        <<<<ref(s, sibling), s.h[sibling].colour>>,
                          <<ref(s, parent), 0>>, <<ref(s, far), 0>>,
                          <<other, "child to black">>>>)
        ELSE pushAction(s, 31,
                        <<<<ref(s, sibling), s.h[sibling].colour>>,
                          <<ref(s, parent), 0>>, <<>>>>)
      farRedRecolour(s, sibling) ==
        setField(setField(s, sibling, "colour", s.h[parent].colour),
                 parent, "colour", 0)
      toRoot(s) == setRet(s, <<parent, s.root>>)
      farRed(s, sibling) ==
        toRoot(rotateToward(
                 farRedEmit(farRedRecolour(s, sibling), sibling,
                            s.h[sibling][other]),
                 parent))
      afterNear(s) ==
        IF s.err \/ s.h[parent][other] = Null THEN throw(s)
        ELSE farRed(s, s.h[parent][other])
      afterRed(s) ==
        IF s.err \/ s.h[parent][other] = Null THEN throw(s)
        ELSE IF isBlack(s.h, s.h[s.h[parent][other]].left)
                /\ isBlack(s.h, s.h[s.h[parent][other]].right)
        THEN moveUp(s, s.h[parent][other])
        ELSE afterNear(
               IF isBlack(s.h, s.h[s.h[parent][other]][other])
               THEN nearRed(s, s.h[parent][other],
                            s.h[s.h[parent][other]][side])
               ELSE s)
  IN IF S.h[parent][other] = Null THEN throw(S)
     ELSE afterRed(IF S.h[S.h[parent][other]].colour = 1
                   THEN redSibling(S, S.h[parent][other])
                   ELSE S)

\* The while loop of deleteFix; returns the final node in S.ret.
RECURSIVE deleteFixLoop(_, _, _)
deleteFixLoop(S, parent, node) ==
  LET next(s) == IF s.err THEN s ELSE deleteFixLoop(s, s.ret[1], s.ret[2])
  IN IF ~(node # S.root /\ isBlack(S.h, node)) THEN setRet(S, node)
     ELSE IF parent = Null THEN throw(S)
     ELSE next(deleteFixCase(S, parent, node,
                             IF S.h[parent].left = Null
                                \/ S.h[parent].left = node
                             THEN "left" ELSE "right"))

\* Mutant: the while loop of deleteFix is never entered.
RedBlack_deleteFix_noLoop(S, parent, node) ==
  LET tail(s) ==
        IF ~isBlack(s.h, s.root)
        THEN setField(pushAction(s, 29, <<<<ref(s, s.root), 0>>, "(root) ">>),
                      s.root, "colour", 0)
        ELSE IF ~isBlack(s.h, s.ret)
        THEN setField(pushAction(s, 29, <<<<ref(s, s.ret), 0>>, "">>),
                      s.ret, "colour", 0)
        ELSE s
  IN tail(setRet(S, node))

RedBlack_deleteFix(S, parent, node) ==
  LET entered(s) ==
        [s EXCEPT !.stale = @ \/ IF parent = Null THEN node # s.root
                                 ELSE node \notin {s.h[parent].left,
                                                   s.h[parent].right}]
      tail(s) ==
        IF s.err THEN s
        ELSE IF ~isBlack(s.h, s.root)
        THEN setField(pushAction(s, 29, <<<<ref(s, s.root), 0>>, "(root) ">>),
                      s.root, "colour", 0)
        ELSE IF ~isBlack(s.h, s.ret)
        THEN setField(pushAction(s, 29, <<<<ref(s, s.ret), 0>>, "">>),
                      s.ret, "colour", 0)
        ELSE s
  IN tail(deleteFixLoop(entered(S), parent, node))

\* Mutant: the fix-up of an emptied slot starts from the removed node.
RedBlack_splice_fromRemoved(S, node) ==
  LET successor == IF S.h[node].left # Null THEN S.h[node].left
                   ELSE S.h[node].right
      parent == S.h[node].parent
      nodeValue == S.h[node].value
      \* the last node goes: tree.root = null; pushAction(5, [null, null])
      emptied(s) ==
        [pushAction(s, 5, <<FALSE, getTreeCopy(s, FALSE)>>)
           EXCEPT !.root = Null, !.nsplice = @ + 1]
      relink(s) ==
        IF parent = Null THEN [s EXCEPT !.root = successor]
        ELSE IF node = s.h[parent].left
        THEN setField(s, parent, "left", successor)
        ELSE setField(s, parent, "right", successor)
      reparent(s) ==
        IF successor # Null THEN setField(s, successor, "parent", parent)
        ELSE s
      resize(s) ==
        [pushAction(s, 5, <<successor # Null, getTreeCopy(s, s.gt)>>)
           EXCEPT !.nsplice = @ + 1]
      fix(s) ==
        IF s.h[node].colour = 0
           /\ (successor = Null \/ s.h[successor].colour = 0)
        THEN IF successor = Null
             THEN RedBlack_deleteFix(
                    pushAction(s, 24,
                      IF parent # Null
                      THEN <<nodeValue, "null child of Node",
                             s.h[parent].value>>
                      ELSE <<nodeValue, "former tree root", NoKey>>),
                    parent, node)
             ELSE RedBlack_deleteFix(
                    pushAction(s, 16, <<s.h[successor].value>>), parent, node)
        ELSE IF successor # Null /\ s.h[successor].colour = 1
        THEN setField(pushAction(s, 25, <<<<ref(s, successor), 0>>>>),
                      successor, "colour", 0)
        ELSE pushAction(s, 26, <<>>)
      removed(s) ==
        IF successor = Null /\ parent = Null
        THEN emptied(pushAction(s, 8, <<nodeValue>>))
        ELSE fix(resize(reparent(relink(
               pushAction(s, IF successor = Null THEN 8 ELSE 7,
                          <<nodeValue>>)))))
  IN removed(pushAction(S, 11, <<nodeValue>>))

\* Mutant: the colour of the replacement of a removed black node is not
\* tested.
RedBlack_splice_anyReplacement(S, node) ==
  LET successor == IF S.h[node].left # Null THEN S.h[node].left
                   ELSE S.h[node].right
      parent == S.h[node].parent
      nodeValue == S.h[node].value
      \* the last node goes: tree.root = null; pushAction(5, [null, null])
      emptied(s) ==
        [pushAction(s, 5, <<FALSE, getTreeCopy(s, FALSE)>>)
           EXCEPT !.root = Null, !.nsplice = @ + 1]
      relink(s) ==
        IF parent = Null THEN [s EXCEPT !.root = successor]
        ELSE IF node = s.h[parent].left
        THEN setField(s, parent, "left", successor)
        ELSE setField(s, parent, "right", successor)
      reparent(s) ==
        IF successor # Null THEN setField(s, successor, "parent", parent)
        ELSE s
      resize(s) ==
        [pushAction(s, 5, <<successor # Null, getTreeCopy(s, s.gt)>>)
           EXCEPT !.nsplice = @ + 1]
      fix(s) ==
        IF s.h[node].colour = 0
        THEN IF successor = Null
             THEN RedBlack_deleteFix(
                    pushAction(s, 24,
                      IF parent # Null
                      THEN <<nodeValue, "null child of Node",
                             s.h[parent].value>>
                      ELSE <<nodeValue, "former tree root", NoKey>>),
                    parent, Null)
             ELSE RedBlack_deleteFix(
                    pushAction(s, 16, <<s.h[successor].value>>), parent, node)
        ELSE IF successor # Null /\ s.h[successor].colour = 1
        THEN setField(pushAction(s, 25, <<<<ref(s, successor), 0>>>>),
                      successor, "colour", 0)
        ELSE pushAction(s, 26, <<>>)
      removed(s) ==
        IF successor = Null /\ parent = Null
        THEN emptied(pushAction(s, 8, <<nodeValue>>))
        ELSE fix(resize(reparent(relink(
               pushAction(s, IF successor = Null THEN 8 ELSE 7,
                          <<nodeValue>>)))))
  IN removed(pushAction(S, 11, <<nodeValue>>))

\* The splice branch of deleteRecursive (node has at most one child).
\* The [null, null] payload of the emptied-tree action is written with the
\* falsy flag FALSE and the null copy.
RedBlack_splice(S, node) ==
  LET successor == IF S.h[node].left # Null THEN S.h[node].left
                   ELSE S.h[node].right
      parent == S.h[node].parent
      nodeValue == S.h[node].value
      \* the last node goes: tree.root = null; pushAction(5, [null, null])
      emptied(s) ==
        [pushAction(s, 5, <<FALSE, getTreeCopy(s, FALSE)>>)
           EXCEPT !.root = Null, !.nsplice = @ + 1]
      relink(s) ==
        IF parent = Null THEN [s EXCEPT !.root = successor]
        ELSE IF node = s.h[parent].left
        THEN setField(s, parent, "left", successor)
        ELSE setField(s, parent, "right", successor)
      reparent(s) ==
        IF successor # Null THEN setField(s, successor, "parent", parent)
        ELSE s
      resize(s) ==
        [pushAction(s, 5, <<successor # Null, getTreeCopy(s, s.gt)>>)
           EXCEPT !.nsplice = @ + 1]
      fix(s) ==
        IF s.h[node].colour = 0
           /\ (successor = Null \/ s.h[successor].colour = 0)
        THEN IF successor = Null
             THEN RedBlack_deleteFix(
                    pushAction(s, 24,
                      IF parent # Null
                      THEN <<nodeValue, "null child of Node",
                             s.h[parent].value>>
                      ELSE <<nodeValue, "former tree root", NoKey>>),
                    parent, Null)
             ELSE RedBlack_deleteFix(
                    pushAction(s, 16, <<s.h[successor].value>>), parent, node)
        ELSE IF successor # Null /\ s.h[successor].colour = 1
        THEN setField(pushAction(s, 25, <<<<ref(s, successor), 0>>>>),
                      successor, "colour", 0)
        ELSE pushAction(s, 26, <<>>)
      removed(s) ==
        IF successor = Null /\ parent = Null
        THEN emptied(pushAction(s, 8, <<nodeValue>>))
        ELSE fix(resize(reparent(relink(
               pushAction(s, IF successor = Null THEN 8 ELSE 7,
                          <<nodeValue>>)))))
  IN removed(pushAction(S, 11, <<nodeValue>>))

RECURSIVE RedBlack_deleteRecursive(_, _, _)
RedBlack_deleteRecursive(S, node, value) ==
  LET \* node.value = getMinValue(node.right); pushAction(10, ...)
      swap(s) == pushAction(setField(s, node, "value", s.ret), 10,
                            <<S.h[node].value, s.ret>>)
      again(s) == RedBlack_deleteRecursive(s, s.h[node].right, s.h[node].value)
  IN IF node = Null THEN throw(S)
     ELSE IF value < S.h[node].value
     THEN RedBlack_deleteRecursive(
            pushAction(S, 3, <<value, S.h[node].value>>),
            S.h[node].left, value)
     ELSE IF value > S.h[node].value
     THEN RedBlack_deleteRecursive(
            pushAction(S, 4, <<value, S.h[node].value>>),
            S.h[node].right, value)
     ELSE IF S.h[node].left # Null /\ S.h[node].right # Null
     THEN again(swap(Tree_getMinValue(pushAction(S, 6, <<value>>),
                                      S.h[node].right)))
     ELSE RedBlack_splice(S, node)

RedBlack_insert(S, value) ==
  LET \* pushAction(16, [newNode.value]); RedBlack.fixInsert(newNode, this)
      fix(s) == RedBlack_fixInsert(pushAction(s, 16, <<s.h[s.ret].value>>),
                                   s.ret)
      end(s) == IF s.err THEN s
                ELSE endInsert(s, "Insertion complete, tree is balanced.")
  IN end(IF S.root = Null
         THEN firstNode(S, [RbNode(value) EXCEPT !.colour = 0])
         ELSE fix(RedBlack_insertRecursive(S, S.root, value)))

RedBlack_delete(S, value) ==
  LET end(s) == IF s.err THEN s
                ELSE endDelete(s, "Deletion complete, tree is balanced.")
  IN end(RedBlack_deleteRecursive(S, S.root, value))

\* ----------------------------------------------------------- controller
\* tree.insert(value) / tree.delete(value), dispatched on the tree's class.
insert(S, kind, value) ==
  CASE kind = "Bst" -> Bst_insert(S, value)
    [] kind = "Avl" -> Avl_insert(S, value)
    [] kind = "RedBlack" -> RedBlack_insert(S, value)

delete(S, kind, value) ==
  CASE kind = "Bst" -> Bst_delete(S, value)
    [] kind = "Avl" -> Avl_delete(S, value)
    [] kind = "RedBlack" -> RedBlack_delete(S, value)

\* Objects no longer reachable from tree.root are dropped from the heap.
collect(S) == renumber(S.h, S.root)

observe(S, op, value) ==
  [op |-> op, value |-> value, log |-> S.log, clash |-> S.clash,
   nrot |-> S.nrot, nsplice |-> S.nsplice, err |-> S.err,
   before |-> Len(actionList), al |-> S.al, stale |-> S.stale]

NoProbe ==
  [op |-> "", value |-> NoKey, log |-> <<>>, clash |-> FALSE, nrot |-> 0,
   nsplice |-> 0, err |-> FALSE, before |-> 0, al |-> <<>>,
   stale |-> FALSE]

\* State after the engine call op(value) returned (or threw) with machine
\* state S.
return(S, kind, op, value) ==
  /\ heap' = collect(S)
  /\ tree' = [kind |-> kind, root |-> IF S.root = Null THEN Null ELSE 1]
  /\ deleteSpec' = S.ds
  /\ rotationSpec' = S.rs
  /\ probe' = observe(S, op, value)

setCreateAction == <<Action(0, <<>>)>>

\* arr after the shuffle loop of generateRandomTree, r[i] being the i-th
\* value of Math.round(Math.random()*(numNodes-1)).
RECURSIVE shuffle(_, _, _)
shuffle(a, i, r) ==
  IF i > Len(a) THEN a
  ELSE LET randNum == r[i] + 1
           temp == a[randNum]
       IN shuffle([[a EXCEPT ![randNum] = a[i]] EXCEPT ![i] = temp], i + 1, r)

\* The keys generateRandomTree draws, off[x] being the x-th value of
\* Math.round(Math.random()*4-2).
randomKeys(numNodes, off) == [x \in 1..numNodes |-> x * KeyStride + off[x]]

\* Keys a created tree can hold.
CreatedKeys == 1..(MaxCreate * KeyStride + MaxOffset)

\* The validation labels, all hidden (setValidatorText(id, '')).
NoText == [create |-> "", add |-> "", delete |-> ""]

\* setValidatorText(inputType + '-validation', text)
setValidatorText(inputType, text) == [validator EXCEPT ![inputType] = text]

\* getInput(inputType) with a number in the input: the label is hidden.
getInput(inputType) == setValidatorText(inputType, "")

\* Nothing is to come: no handler is about to call animate, no timer or
\* simulation will call animate or enableNext, the Next button is disabled.
NoPending == [call |-> FALSE, animate |-> 0, enableNext |-> 0, next |-> FALSE]

Init ==
  /\ heap = EmptyHeap
  /\ tree = NoTree
  /\ globalTree = FALSE
  /\ actionList = <<>>
  /\ deleteSpec = <<>>
  /\ rotationSpec = <<>>
  /\ operation = ""
  /\ inputDisabled = FALSE
  /\ arr = <<>>
  /\ creating = FALSE
  /\ validator = NoText
  /\ pending = NoPending
  /\ present = {}
  /\ probe = NoProbe

\* Mutant: setCreateAction() is not called after the first insert.
addClickNew_noCreateAction(nodeId, kind) ==
  LET after(S) ==
        /\ return(S, kind, "INSERT", nodeId)
        /\ actionList' = S.al
        /\ inputDisabled' = ~S.err
        /\ pending' = [pending EXCEPT !.call = ~S.err]
  IN /\ ~inputDisabled /\ ~creating /\ ~globalTree
     /\ after(insert([enter EXCEPT !.gt = TRUE], kind, nodeId))
     /\ globalTree' = TRUE
     /\ operation' = "INSERT"
     /\ present' = {nodeId}
     /\ validator' = getInput("add")
     /\ UNCHANGED <<arr, creating>>

\* addClick on an empty screen: a tree of the selected type is created.
\* disableInput() and animate() are reached unless the insert threw.
addClickNew(nodeId, kind) ==
  LET after(S) ==
        /\ return(S, kind, "INSERT", nodeId)
        /\ actionList' = IF S.err THEN S.al ELSE setCreateAction
        /\ inputDisabled' = ~S.err
        /\ pending' = [pending EXCEPT !.call = ~S.err]
  IN /\ ~inputDisabled /\ ~creating /\ ~globalTree
     /\ after(insert([enter EXCEPT !.gt = TRUE], kind, nodeId))
     /\ globalTree' = TRUE
     /\ operation' = "INSERT"
     /\ present' = {nodeId}
     /\ validator' = getInput("add")
     /\ UNCHANGED <<arr, creating>>

\* Mutant: the key is inserted without asking find.
addClick_noFind(nodeId) ==
  LET after(S) ==
        /\ return(S, tree.kind, "INSERT", nodeId)
        /\ actionList' = S.al
        /\ inputDisabled' = ~S.err
        /\ pending' = [pending EXCEPT !.call = ~S.err]
  IN /\ ~inputDisabled /\ ~creating /\ globalTree
     /\ Cardinality(DOMAIN heap) < MaxNodes
     /\ after(insert(enter, tree.kind, nodeId))
     /\ operation' = "INSERT"
     /\ present' = present \cup {nodeId}
     /\ validator' = getInput("add")
     /\ UNCHANGED <<globalTree, arr, creating>>

\* addClick with a tree on screen and a key that find does not report.
addClick(nodeId) ==
  LET after(S) ==
        /\ return(S, tree.kind, "INSERT", nodeId)
        /\ actionList' = S.al
        /\ inputDisabled' = ~S.err
        /\ pending' = [pending EXCEPT !.call = ~S.err]
  IN /\ ~inputDisabled /\ ~creating /\ globalTree
     /\ find(nodeId) # 1
     /\ Cardinality(DOMAIN heap) < MaxNodes
     /\ after(insert(enter, tree.kind, nodeId))
     /\ operation' = "INSERT"
     /\ present' = present \cup {nodeId}
     /\ validator' = getInput("add")
     /\ UNCHANGED <<globalTree, arr, creating>>

\* Mutant: the engine's delete is called without asking find.
deleteClick_noFind(nodeId) ==
  LET after(S) ==
        /\ return(S, tree.kind, "DELETE", nodeId)
        /\ actionList' = S.al
        /\ inputDisabled' = ~S.err
        /\ pending' = [pending EXCEPT !.call = ~S.err]
  IN /\ ~inputDisabled /\ ~creating /\ globalTree
     /\ after(delete(enter, tree.kind, nodeId))
     /\ operation' = "DELETE"
     /\ present' = present \ {nodeId}
     /\ validator' = getInput("delete")
     /\ UNCHANGED <<globalTree, arr, creating>>

\* deleteClick with a key that find reports.
deleteClick(nodeId) ==
  LET after(S) ==
        /\ return(S, tree.kind, "DELETE", nodeId)
        /\ actionList' = S.al
        /\ inputDisabled' = ~S.err
        /\ pending' = [pending EXCEPT !.call = ~S.err]
  IN /\ ~inputDisabled /\ ~creating /\ globalTree
     /\ find(nodeId) = 1
     /\ after(delete(enter, tree.kind, nodeId))
     /\ operation' = "DELETE"
     /\ present' = present \ {nodeId}
     /\ validator' = getInput("delete")
     /\ UNCHANGED <<globalTree, arr, creating>>

\* addClick with a tree on screen and a key that find reports: the click is
\* turned down.
addClickExists(nodeId) ==
  /\ ~inputDisabled /\ ~creating /\ globalTree
  /\ find(nodeId) = 1
  /\ validator' = [getInput("add") EXCEPT !.add = "Node already exists."]
  /\ UNCHANGED <<heap, tree, globalTree, actionList, deleteSpec, rotationSpec,
                 operation, inputDisabled, arr, creating, pending, present,
                 probe>>

\* deleteClick with a key that find does not report: the click is turned
\* down.
deleteClickMissing(nodeId) ==
  /\ ~inputDisabled /\ ~creating /\ globalTree
  /\ find(nodeId) # 1
  /\ validator' = [getInput("delete") EXCEPT !.delete = "Node does not exist."]
  /\ UNCHANGED <<heap, tree, globalTree, actionList, deleteSpec, rotationSpec,
                 operation, inputDisabled, arr, creating, pending, present,
                 probe>>

\* createClick up to the first insert of generateRandomTree: the keys are
\* drawn and shuffled and the new tree, not yet Global.tree, is made.
createClick(numNodes, kind, off, r) ==
  /\ ~inputDisabled /\ ~creating /\ ~globalTree
  /\ inputDisabled' = TRUE
  /\ creating' = TRUE
  /\ arr' = shuffle(randomKeys(numNodes, off), 1, r)
  /\ tree' = [kind |-> kind, root |-> Null]
  /\ heap' = EmptyHeap
  /\ present' = {}
  /\ validator' = getInput("create")
  /\ UNCHANGED <<globalTree, actionList, deleteSpec, rotationSpec, operation,
                 pending, probe>>

\* One pass of arr.forEach in generateRandomTree: newTree.insert(i).
generateRandomTree_insert ==
  LET after(S) ==
        /\ return(S, tree.kind, "INSERT", Head(arr))
        /\ actionList' = S.al
  IN /\ creating /\ arr # <<>>
     /\ after(insert(enter, tree.kind, Head(arr)))
     /\ operation' = "INSERT"
     /\ present' = present \cup {Head(arr)}
     /\ arr' = Tail(arr)
     /\ UNCHANGED <<globalTree, inputDisabled, creating, validator, pending>>

\* generateRandomTree returns: Global.tree = newTree; setCreateAction();
\* createClick is about to call animate.
generateRandomTree_return ==
  /\ creating /\ arr = <<>>
  /\ globalTree' = TRUE
  /\ actionList' = setCreateAction
  /\ creating' = FALSE
  /\ pending' = [pending EXCEPT !.call = TRUE]
  /\ UNCHANGED <<heap, tree, deleteSpec, rotationSpec, operation,
                 inputDisabled, arr, validator, present, probe>>

\* The playback: animate pops the actions one after the other until the list
\* is empty, then enableButtons; an emptied tree is dropped (clearTree).
animate ==
  /\ inputDisabled /\ ~creating
  /\ actionList' = <<>>
  /\ inputDisabled' = FALSE
  /\ IF tree.root = Null
     THEN tree' = NoTree /\ globalTree' = FALSE /\ heap' = EmptyHeap
     ELSE UNCHANGED <<tree, globalTree, heap>>
  /\ pending' = NoPending
  /\ probe' = NoProbe
  /\ UNCHANGED <<deleteSpec, rotationSpec, operation, arr, creating,
                 validator, present>>

clearClick ==
  /\ ~inputDisabled /\ ~creating /\ globalTree
  /\ tree' = NoTree
  /\ globalTree' = FALSE
  /\ heap' = EmptyHeap
  /\ present' = {}
  /\ UNCHANGED <<actionList, deleteSpec, rotationSpec, operation,
                 inputDisabled, arr, creating, validator, pending, probe>>

\* The user adds, deletes and clears; the create input is left alone.
Next ==
  \/ \E nodeId \in Keys, kind \in Kinds : addClickNew(nodeId, kind)
  \/ \E nodeId \in Keys : addClick(nodeId)
  \/ \E nodeId \in Keys : deleteClick(nodeId)
  \/ animate
  \/ clearClick

Spec == Init /\ [][Next]_vars

\* The user creates random trees, deletes from them and clears them.
CreateNext ==
  \/ \E numNodes \in 1..MaxCreate, kind \in Kinds :
       \E off \in [1..numNodes -> (-MaxOffset)..MaxOffset],
          r \in [1..numNodes -> 0..(numNodes - 1)] :
         createClick(numNodes, kind, off, r)
  \/ generateRandomTree_insert
  \/ generateRandomTree_return
  \/ \E nodeId \in CreatedKeys : deleteClick(nodeId)
  \/ animate
  \/ clearClick

CreateSpec == Init /\ [][CreateNext]_vars

\* Keys the add input offers on a screen where trees are also created: the
\* smallest keys generateRandomTree can draw.
AppKeys == (KeyStride - MaxOffset)..(KeyStride - MaxOffset + MaxAppKey - 1)

\* Keys the delete input offers there: all that a created tree can hold.
AppTreeKeys == 1..(MaxAppCreate * KeyStride + MaxOffset)

\* The whole controller: the user creates, adds, deletes and clears, with
\* keys the tree holds and keys it does not hold.
AppNext ==
  \/ \E numNodes \in 1..MaxAppCreate, kind \in Kinds :
       \E off \in [1..numNodes -> (-MaxOffset)..MaxOffset],
          r \in [1..numNodes -> 0..(numNodes - 1)] :
         createClick(numNodes, kind, off, r)
  \/ generateRandomTree_insert
  \/ generateRandomTree_return
  \/ \E nodeId \in AppKeys, kind \in Kinds : addClickNew(nodeId, kind)
  \/ \E nodeId \in AppKeys : addClick(nodeId)
  \/ \E nodeId \in AppKeys : addClickExists(nodeId)
  \/ \E nodeId \in AppTreeKeys : deleteClick(nodeId)
  \/ \E nodeId \in AppTreeKeys : deleteClickMissing(nodeId)
  \/ animate
  \/ clearClick

AppSpec == Init /\ [][AppNext]_vars

\* Keys of the worked examples.
ScenarioKeys == {5, 10, 15, 20, 30}

\* The user adds, deletes and clears with the keys of the worked examples.
ScenarioNext ==
  \/ \E nodeId \in ScenarioKeys, kind \in Kinds : addClickNew(nodeId, kind)
  \/ \E nodeId \in ScenarioKeys : addClick(nodeId)
  \/ \E nodeId \in ScenarioKeys : deleteClick(nodeId)
  \/ animate
  \/ clearClick

ScenarioSpec == Init /\ [][ScenarioNext]_vars

DeepKeys == 1..MaxDeepKey

\* The user adds keys in ascending order, deletes any key and clears, with
\* the keys 1..MaxKey, and on a RedBlack tree with the keys 1..MaxDeepKey,
\* enough for the fix-up loops to run more than one pass.
DeepNext ==
  \/ \E nodeId \in DeepKeys, kind \in Kinds :
       /\ kind = "RedBlack" \/ nodeId \in Keys
       /\ addClickNew(nodeId, kind)
  \/ \E nodeId \in DeepKeys :
       /\ tree.kind = "RedBlack" \/ nodeId \in Keys
       /\ \A k \in present : k < nodeId
       /\ addClick(nodeId)
  \/ \E nodeId \in DeepKeys : deleteClick(nodeId)
  \/ animate
  \/ clearClick

DeepSpec == Init /\ [][DeepNext]_vars

\* The tags animate plays as a left and as a right rotation.
RotateLeftTag == 14
RotateRightTag == 15

\* --------------------------------------------------------------- playback
\* The controller fields one call of animate reads and writes.  The tree
\* argument of animate is Global.tree in every call that reads it.
playing ==
  [al |-> actionList, tree |-> tree, gt |-> globalTree, h |-> heap,
   disabled |-> inputDisabled, pending |-> pending, probe |-> probe]

\* enableButtons(tree): the inputs are enabled; without a tree, or with an
\* empty one, Global.tree = null.
enableButtons(P) ==
  IF ~P.gt \/ P.tree.root = Null
  THEN [P EXCEPT !.disabled = FALSE, !.tree = NoTree, !.gt = FALSE,
                 !.h = EmptyHeap]
  ELSE [P EXCEPT !.disabled = FALSE]

\* clearTree(): Global.tree = null; refreshScreen(null); enableButtons(null)
clearTree(P) == enableButtons([P EXCEPT !.gt = FALSE])

\* The end of drawTree's simulation: enableNext() for an Avl or RedBlack
\* tree after APPEND, ROTATION and the RESIZE of a delete, animate otherwise.
drawTree(P, actionType) ==
  IF /\ P.gt /\ P.tree.kind \in {"Avl", "RedBlack"}
     /\ \/ actionType \in {"APPEND", "ROTATION"}
        \/ operation = "DELETE" /\ actionType = "RESIZE"
  THEN "enableNextLater"
  ELSE "animateLater"

\* animateTreeHeightChange(tree, action, settings): what the call goes on
\* with.  Global.simulationData.treeHeight, the height on screen, decides
\* between a RESIZE simulation and an immediate continuation; either may
\* happen.  Reading the root of a null tree throws.
animateTreeHeightChange(P, action) ==
  IF operation = "INSERT" /\ Len(action.args) = 1
  THEN {drawTree(P, "RESIZE"), "animate"}
  ELSE IF operation = "DELETE" /\ Len(action.args) = 2
  THEN IF ~P.gt THEN {"throw"}
       ELSE IF P.tree.root = Null THEN {"clearTree"}
       ELSE {drawTree(P, "RESIZE")}
            \cup IF action.args[1] THEN {}
                 ELSE {IF P.tree.kind = "Bst" THEN "animate"
                       ELSE "enableNext"}
  ELSE IF ~P.gt THEN {"throw"}
       ELSE {drawTree(P, "RESIZE"), "animate"}

\* Mutant: tags 24 and 26 are played without the call of enableNext.
continuation_noEnableNext(P, action) ==
  CASE action.id = 0 -> {drawTree(P, "NEWTREE")}
    [] action.id \in {1, 2} -> {drawTree(P, "APPEND")}
    [] action.id = 5 -> animateTreeHeightChange(P, action)
    [] action.id \in {7, 8, 32} -> {"animateLater"}
    [] action.id \in {RotateLeftTag, RotateRightTag} ->
         {drawTree(P, "ROTATION")}
    [] action.id \in {3, 4, 6, 9, 10, 11, 12, 13, 16, 17, 18, 19, 20, 21,
                      22, 23, 25, 27, 28, 29, 30, 31} -> {"enableNextLater"}
    [] OTHER -> {"break"}

\* The switch of animate: what playing the action ends with.  The draw
\* functions end in a timer or a simulation that calls animate or
\* enableNext; tags 24 and 26 call enableNext at once.
continuation(P, action) ==
  CASE action.id = 0 -> {drawTree(P, "NEWTREE")}
    [] action.id \in {1, 2} -> {drawTree(P, "APPEND")}
    [] action.id = 5 -> animateTreeHeightChange(P, action)
    [] action.id \in {7, 8, 32} -> {"animateLater"}
    [] action.id \in {RotateLeftTag, RotateRightTag} ->
         {drawTree(P, "ROTATION")}
    [] action.id \in {24, 26} -> {"enableNext"}
    [] action.id \in {3, 4, 6, 9, 10, 11, 12, 13, 16, 17, 18, 19, 20, 21,
                      22, 23, 25, 27, 28, 29, 30, 31} -> {"enableNextLater"}
    [] OTHER -> {"break"}

\* animate(tree): the states one call can end in.  With an empty list the
\* inputs are enabled; otherwise the last action is popped and played.
RECURSIVE animateFrom(_)
animateFrom(P) ==
  IF P.al = <<>>
  THEN {[enableButtons(P) EXCEPT !.probe = NoProbe]}
  ELSE LET then(Q, what) ==
             CASE what = "animate" -> animateFrom(Q)
               [] what = "clearTree" -> animateFrom(clearTree(Q))
               [] what = "animateLater" ->
                    {[Q EXCEPT !.pending.animate = @ + 1]}
               [] what = "enableNextLater" ->
                    {[Q EXCEPT !.pending.enableNext = @ + 1]}
               [] what = "enableNext" -> {[Q EXCEPT !.pending.next = TRUE]}
               [] OTHER -> {Q}
           pop(Q, action) ==
             UNION {then(Q, what) : what \in continuation(Q, action)}
       IN pop([P EXCEPT !.al = SubSeq(@, 1, Len(@) - 1)], P.al[Len(P.al)])

\* The controller after a call of animate that ended in Q.
played_(Q) ==
  /\ heap' = Q.h
  /\ tree' = Q.tree
  /\ globalTree' = Q.gt
  /\ actionList' = Q.al
  /\ inputDisabled' = Q.disabled
  /\ pending' = Q.pending
  /\ probe' = Q.probe
  /\ UNCHANGED <<deleteSpec, rotationSpec, operation, arr, creating,
                 validator, present>>

\* A click handler calls animate(Global.tree).
animateCall ==
  /\ pending.call /\ ~creating
  /\ \E Q \in animateFrom([playing EXCEPT !.pending.call = FALSE]) :
       played_(Q)

\* A timer, or the end of a simulation, calls animate.
animateLater ==
  /\ ~pending.call /\ ~creating
  /\ pending.animate > 0
  /\ \E Q \in animateFrom([playing EXCEPT !.pending.animate = @ - 1]) :
       played_(Q)

\* A timer, or the end of a simulation, calls enableNext: the Next button
\* is enabled.
enableNext ==
  /\ ~pending.call /\ ~creating
  /\ pending.enableNext > 0
  /\ pending' = [pending EXCEPT !.enableNext = @ - 1, !.next = TRUE]
  /\ UNCHANGED <<heap, tree, globalTree, actionList, deleteSpec, rotationSpec,
                 operation, inputDisabled, arr, creating, validator, present,
                 probe>>

\* nextAnimationClick(button): button.disabled = true; animate()
nextAnimationClick ==
  /\ ~pending.call /\ ~creating
  /\ pending.next
  /\ \E Q \in animateFrom([playing EXCEPT !.pending.next = FALSE]) :
       played_(Q)

PlayKeys == 1..MaxPlayKey

\* Calls of animate and enableNext still to come, an enabled Next button
\* counting as one.
toCome ==
  pending.animate + pending.enableNext + (IF pending.next THEN 1 ELSE 0)

\* The user adds, deletes and clears whenever the inputs are enabled and
\* presses Next whenever it is enabled; the playback goes action by action.
PlayNext ==
  \/ \E nodeId \in PlayKeys, kind \in Kinds :
       toCome < MaxPending /\ addClickNew(nodeId, kind)
  \/ \E nodeId \in PlayKeys : toCome < MaxPending /\ addClick(nodeId)
  \/ \E nodeId \in PlayKeys : toCome < MaxPending /\ deleteClick(nodeId)
  \/ clearClick
  \/ animateCall
  \/ animateLater
  \/ enableNext
  \/ nextAnimationClick

PlaySpec == Init /\ [][PlayNext]_vars

\* Timers fire and simulations end, a handler that is about to call animate
\* calls it, and the user presses Next whenever it is enabled.
PlayFairSpec ==
  /\ PlaySpec
  /\ WF_vars(animateCall)
  /\ WF_vars(animateLater)
  /\ WF_vars(enableNext)
  /\ WF_vars(nextAnimationClick)

\* ------------------------------------------------------------ properties
isStrictlyIncreasing(s) == \A i \in 1..(Len(s) - 1) : s[i] < s[i + 1]

valuesOf(s) == {s[i] : i \in 1..Len(s)}

count(s, ids) == Cardinality({i \in 1..Len(s) : s[i].id \in ids})

hasAction(s, ids) == \E i \in 1..Len(s) : s[i].id \in ids

\* Numbers of black nodes on the paths from node down to a null child.
RECURSIVE blackCounts(_, _)
blackCounts(h, node) ==
  IF node = Null THEN {0}
  ELSE {c + (IF h[node].colour = 0 THEN 1 ELSE 0) :
          c \in blackCounts(h, h[node].left) \cup blackCounts(h, h[node].right)}

\* C1: after every insert, whatever the engine, the in-order traversal of the
\* tree is strictly increasing.
C1_InsertKeepsInOrderSorted ==
  probe.op = "INSERT" => isStrictlyIncreasing(inOrder(heap, tree.root))

C1_Witness ==
  /\ probe.op = "INSERT"
  /\ tree.kind = "Bst"
  /\ Len(inOrder(heap, tree.root)) >= 4
  /\ Tree_getHeight(heap, tree.root) = 3

\* C2: after each insert of an absent key and each delete of a present key the
\* keys stored are the previous keys plus or minus that key, each key is held
\* by exactly one node, and the in-order traversal is strictly increasing.
C2_KeySetFollowsCalls ==
  LET io == inOrder(heap, tree.root)
  IN /\ valuesOf(io) = present
     /\ Len(io) = Cardinality(present)
     /\ isStrictlyIncreasing(io)

\* A delete of a node with two children has just returned.
C2_Witness ==
  /\ probe.op = "DELETE"
  /\ hasAction(probe.log, {10})
  /\ Cardinality(present) >= 3

\* C3: after every insert or delete on an Avl tree, the true heights of the
\* two subtrees of every node differ by at most one.
C3_AvlBalanced ==
  tree.kind = "Avl" =>
    \A n \in DOMAIN heap :
      LET d == Tree_getHeight(heap, heap[n].left)
                 - Tree_getHeight(heap, heap[n].right)
      IN d >= -1 /\ d <= 1

\* An Avl delete that had to rotate has just returned.
C3_Witness ==
  /\ tree.kind = "Avl"
  /\ probe.op = "DELETE"
  /\ probe.nrot >= 1
  /\ Cardinality(present) >= 4

\* C4: after every insert or delete on a RedBlack tree, every path from the
\* root down to a null child passes through the same number of black nodes.
C4_RbEqualBlackHeight ==
  tree.kind = "RedBlack" => Cardinality(blackCounts(heap, tree.root)) = 1

\* A RedBlack delete that ran deleteFix through its rotation branch.
C4_Witness ==
  /\ tree.kind = "RedBlack"
  /\ probe.op = "DELETE"
  /\ hasAction(probe.log, {31})
  /\ tree.root # Null

\* C5: after every insert or delete on a RedBlack tree, no red node has a red
\* child.
C5_RbNoRedRed ==
  tree.kind = "RedBlack" =>
    \A n \in DOMAIN heap :
      heap[n].colour = 1 =>
        isBlack(heap, heap[n].left) /\ isBlack(heap, heap[n].right)

\* A RedBlack insert whose fixInsert met a red parent with an inner child: it
\* rotated at the parent, recoloured and rotated at the grandparent.
C5_Witness ==
  /\ tree.kind = "RedBlack"
  /\ probe.op = "INSERT"
  /\ hasAction(probe.log, {22})
  /\ count(probe.log, {14, 15}) = 2

\* C6: after every insert or delete on a RedBlack tree, the root is null or
\* black.
C6_RbRootBlack ==
  tree.kind = "RedBlack" => isBlack(heap, tree.root)

\* A RedBlack call in which a rotation replaced the root has just returned.
C6_Witness ==
  /\ tree.kind = "RedBlack"
  /\ tree.root # Null
  /\ \E i \in 1..Len(probe.log) :
       probe.log[i].id \in {14, 15} /\ probe.log[i].args[4] = NoKey

\* C7: once every inserted key has been deleted again, root is null.
C7_RoundTripEmpties ==
  present = {} => tree.root = Null

\* The delete of the last key has just returned.
C7_Witness ==
  /\ probe.op = "DELETE"
  /\ present = {}
  /\ tree.kind \in Kinds
  /\ tree.root = Null

\* C8: at the return of every insert or delete call on a Bst or Avl tree both
\* pending-record slots are empty.
C8_SlotsEmptyAtReturn ==
  tree.kind \in {"Bst", "Avl"} => deleteSpec = <<>> /\ rotationSpec = <<>>

\* An Avl insert that performed a double rotation has just returned.
C8_Witness ==
  /\ tree.kind = "Avl"
  /\ probe.op = "INSERT"
  /\ probe.nrot = 2

\* C9: during a Bst or Avl call no pending record is written while a record
\* is outstanding, and every splice and every rotation is finalized into
\* exactly one action.
C9_OnePendingRecord ==
  (tree.kind \in {"Bst", "Avl"} /\ probe.op # "") =>
    /\ ~probe.clash
    /\ count(probe.log, {14, 15}) = probe.nrot
    /\ Cardinality({i \in 1..Len(probe.log) :
                      probe.log[i].id = 5 /\ Len(probe.log[i].args) = 2})
         = probe.nsplice

\* An Avl delete that spliced a node and then rotated twice at one node.
C9_Witness ==
  /\ tree.kind = "Avl"
  /\ probe.op = "DELETE"
  /\ probe.nsplice = 1
  /\ probe.nrot >= 2

\* C10: the action list a call has produced holds exactly one end-of-sequence
\* action, and it sits at index 0.
C10_OneEndOfSequenceLast ==
  probe.op # "" =>
    /\ count(probe.al, {32}) = 1
    /\ probe.al[1].id = 32

\* The resize actions of an insert: the one checkInsertResize puts at the
\* front of the list (payload [height]) and the one insert pushes after the
\* reversal (payload null).
isResize(a) == a.id = 5 /\ Len(a.args) <= 1

notResize(a) == ~isResize(a)

\* The order in which animate pops the actions of a list.
consumed(al) == reverse(al)

\* C11 as stated: for every insert or delete call the order in which the
\* player consumes the actions is the order in which the engine emitted them.
C11_ConsumedInEmissionOrder ==
  (probe.op # "" /\ ~probe.err) => consumed(probe.al) = probe.log

\* C11 amended: the player consumes first the resize actions of the call (the
\* trailing one of an insert, then the one of checkInsertResize), then what
\* the list held when the call was entered, then the other actions of the
\* call in emission order.
C11_ResizeFirstThenEmissionOrder ==
  (probe.op # "" /\ ~probe.err) =>
    LET order == consumed(probe.al)
        own == SelectSeq(probe.log, notResize)
        resizes == SelectSeq(probe.log, isResize)
        kept == IF hasAction(probe.log, {0}) THEN 0 ELSE probe.before
        k == Len(order) - Len(own)
    IN /\ k = kept + Len(resizes)
       /\ SubSeq(order, k + 1, Len(order)) = own
       /\ SubSeq(order, 1, Len(resizes)) = reverse(resizes)
       /\ probe.op = "INSERT" => order[1] = Action(5, <<>>)
       /\ probe.op = "DELETE" => resizes = <<>>

\* An Avl insert that rotated, with a checkInsertResize action, has returned.
C11_Witness ==
  /\ probe.op = "INSERT"
  /\ tree.kind = "Avl"
  /\ hasAction(probe.log, {14, 15})
  /\ \E i \in 1..Len(probe.log) :
       probe.log[i].id = 5 /\ Len(probe.log[i].args) = 1

\* C12: when the list is handed to the player after the first insert into an
\* empty tree, it holds the create-new-tree action (tag 0) and nothing else.
C12_FirstInsertHandsCreateAction ==
  (inputDisabled /\ ~creating /\ probe.op = "INSERT"
     /\ hasAction(probe.log, {0})) =>
    /\ Len(actionList) = 1
    /\ actionList[1].id = 0

\* The first insert of a RedBlack tree has returned with its own three
\* actions and the player is about to run.
C12_Witness ==
  /\ inputDisabled /\ ~creating
  /\ tree.kind = "RedBlack"
  /\ probe.op = "INSERT"
  /\ hasAction(probe.log, {0})
  /\ Len(probe.al) = 3

\* C13: when an insert or delete call returns, Global.actionList holds the
\* actions that call emitted and nothing left over from earlier calls.
C13_ListHoldsOnlyThisCall ==
  (probe.op # "" /\ ~probe.err) =>
    /\ Len(probe.al) = Len(probe.log)
    /\ valuesOf(probe.al) = valuesOf(probe.log)

\* A click that only calls find and is turned down.
rejectedClick ==
  \E nodeId \in AppTreeKeys :
    addClickExists(nodeId) \/ deleteClickMissing(nodeId)

\* C14: find(key) is 1 exactly when a node of the tree holds the key and -1
\* otherwise, and a step that only calls find changes neither the tree nor
\* the action list nor the pending-record slots.
C14_FindReportsMembership ==
  /\ [](\A k \in Keys \cup CreatedKeys :
          find(k) = IF k \in valuesOf(inOrder(heap, tree.root))
                    THEN 1 ELSE -1)
  /\ [][rejectedClick =>
          UNCHANGED <<heap, tree, actionList, deleteSpec, rotationSpec>>]_vars

\* Both kinds of click were turned down on an Avl tree of three nodes.
C14_Witness ==
  /\ tree.kind = "Avl"
  /\ Cardinality(DOMAIN heap) >= 3
  /\ validator.add = "Node already exists."
  /\ validator.delete = "Node does not exist."

\* C15: the engine's delete is only ever called with a key the tree holds,
\* and a delete click for an absent key leaves the tree, the action list and
\* the enabled state of the inputs as they were.
C15_DeleteOnlyPresentKeys ==
  /\ [][(probe' # probe /\ probe'.op = "DELETE") =>
          probe'.value \in valuesOf(inOrder(heap, tree.root))]_vars
  /\ [][(\E nodeId \in AppTreeKeys : deleteClickMissing(nodeId)) =>
          UNCHANGED <<heap, tree, actionList, inputDisabled>>]_vars

\* A delete click was turned down on a RedBlack tree of two or more nodes.
C15_Witness ==
  /\ tree.kind = "RedBlack"
  /\ Cardinality(DOMAIN heap) >= 2
  /\ validator.delete = "Node does not exist."
  /\ ~inputDisabled

C17_OutcomeIndependentOfGlobalTree ==
  tree.kind \in Kinds =>
    \A k \in CreatedKeys :
      LET run(gt) ==
            IF find(k) = 1
            THEN delete([enter EXCEPT !.gt = gt], tree.kind, k)
            ELSE insert([enter EXCEPT !.gt = gt], tree.kind, k)
          same(a, b) ==
            /\ a.err = b.err
            /\ collect(a) = collect(b)
            /\ a.log = b.log
      IN same(run(TRUE), run(FALSE))

\* The machine state in which a call finds a tree whose last trace was played.
played(S) ==
  [h |-> collect(S), root |-> IF S.root = Null THEN Null ELSE 1, al |-> <<>>,
   ds |-> S.ds, rs |-> S.rs, gt |-> TRUE, ret |-> Null, err |-> FALSE,
   log |-> <<>>, clash |-> FALSE, nrot |-> 0, nsplice |-> 0,
   stale |-> FALSE]

\* The machine state after values were inserted, in that order, into an empty
\* tree of the kind, every trace played before the next call.
RECURSIVE built(_, _)
built(kind, values) ==
  IF values = <<>>
  THEN [h |-> EmptyHeap, root |-> Null, al |-> <<>>, ds |-> <<>>, rs |-> <<>>,
        gt |-> TRUE, ret |-> Null, err |-> FALSE, log |-> <<>>,
        clash |-> FALSE, nrot |-> 0, nsplice |-> 0, stale |-> FALSE]
  ELSE insert(played(built(kind, SubSeq(values, 1, Len(values) - 1))), kind,
              values[Len(values)])

\* The tree on screen is the one built by inserting values in that order.
isBuilt(kind, values) ==
  /\ tree.kind = kind
  /\ globalTree
  /\ heap = collect(built(kind, values))

\* An engine call op(value) returns in this step.
returns(op, value) ==
  /\ probe' # probe
  /\ probe'.op = op
  /\ probe'.value = value

\* C18: inserting 10, 20, 30 in that order into an empty Avl tree, the trace
\* of the third insert holds exactly one rotation action, it carries the tag
\* the player shows as a left rotation and names node 10, and the root key
\* ends as 20.
C18_ThirdInsertRotatesLeftAtTen ==
  [][(isBuilt("Avl", <<10, 20>>) /\ returns("INSERT", 30)) =>
       /\ count(probe'.log, {RotateLeftTag, RotateRightTag}) = 1
       /\ \E i \in 1..Len(probe'.log) :
            /\ probe'.log[i].id = RotateLeftTag
            /\ probe'.log[i].args[1] = 10
       /\ heap'[tree'.root].value = 20]_vars

\* Position of the first action with the tag in the log, 0 if there is none.
indexOf(log, tag) ==
  IF hasAction(log, {tag})
  THEN CHOOSE i \in 1..Len(log) :
         log[i].id = tag /\ \A j \in 1..(i - 1) : log[j].id # tag
  ELSE 0

\* C19: inserting 10 and then 5 into an empty RedBlack tree, the second
\* insert rotates nothing and recolours nothing, its trace holds after the
\* begin-fixup action (tag 16) exactly one fixup action, a terminal one (tag
\* 17, 18 or 19), and the tree ends as black root 10 with red left child 5.
C19_SecondInsertNeedsNoFix ==
  [][(isBuilt("RedBlack", <<10>>) /\ returns("INSERT", 5)) =>
       /\ count(probe'.log, {16}) = 1
       /\ count(probe'.log, {14, 15, 20, 21, 22, 23}) = 0
       /\ count(probe'.log, {17, 18, 19}) = 1
       /\ indexOf(probe'.log, 16) < Len(probe'.log)
       /\ probe'.log[indexOf(probe'.log, 16) + 1].id \in {17, 18, 19}
       /\ heap'[tree'.root].colour = heap[tree.root].colour
       /\ Cardinality(DOMAIN heap') = 2
       /\ heap'[tree'.root].value = 10
       /\ heap'[tree'.root].colour = 0
       /\ heap'[tree'.root].right = Null
       /\ heap'[tree'.root].left # Null
       /\ heap'[heap'[tree'.root].left].value = 5
       /\ heap'[heap'[tree'.root].left].colour = 1]_vars

\* The insert of 5 into the RedBlack tree holding 10 has returned.
C19_Witness ==
  /\ tree.kind = "RedBlack"
  /\ probe.op = "INSERT"
  /\ probe.value = 5
  /\ present = {5, 10}
  /\ hasAction(probe.log, {16})

\* C20: a RedBlack tree built by inserting 10, 20, 30, 15 and then deleting
\* 30: deleteFix goes through its sibling-rotation branch and emits at least
\* one rotation action, and the tree ends holding exactly 10, 15 and 20, in
\* search order, with a black root, no red node with a red child and the
\* same number of black nodes on every path.
C20_DeleteRotatesAndKeepsInvariants ==
  [][(isBuilt("RedBlack", <<10, 20, 30, 15>>) /\ returns("DELETE", 30)) =>
       /\ ~probe'.err
       /\ hasAction(probe'.log, {30, 31})
       /\ count(probe'.log, {14, 15}) >= 1
       /\ indexOf(probe'.log, 24) > 0
       /\ \A i \in 1..Len(probe'.log) :
            probe'.log[i].id \in {14, 15} => i > indexOf(probe'.log, 24)
       /\ inOrder(heap', tree'.root) = <<10, 15, 20>>
       /\ isBlack(heap', tree'.root)
       /\ \A n \in DOMAIN heap' :
            heap'[n].colour = 1 =>
              isBlack(heap', heap'[n].left) /\ isBlack(heap', heap'[n].right)
       /\ Cardinality(blackCounts(heap', tree'.root)) = 1]_vars

\* The delete of 30 has returned after two rotations, with 15 at the root.
C20_Witness ==
  /\ tree.kind = "RedBlack"
  /\ probe.op = "DELETE"
  /\ probe.value = 30
  /\ present = {10, 15, 20}
  /\ count(probe.log, {14, 15}) = 2
  /\ heap[tree.root].value = 15

\* An engine call of the kind op returns in this step.
returnsFrom(op) == probe' # probe /\ probe'.op = op

\* The shape-change actions (tag 5) of a log that carry a copy of the tree.
snapshotActions(log) ==
  {i \in 1..Len(log) :
     log[i].id = 5 /\ Len(log[i].args) = 2 /\ ~log[i].args[2].null}

\* C21 as stated: deleting the only key of a one-node tree sets root to null,
\* and the trace holds the removal action of a childless node (tag 8) and no
\* shape-change action carrying a copy of the tree.
C21_SoleKeyDeleteWithoutSnapshot ==
  [][(Cardinality(DOMAIN heap) = 1 /\ returnsFrom("DELETE")) =>
       /\ tree'.root = Null
       /\ hasAction(probe'.log, {8})
       /\ snapshotActions(probe'.log) = {}]_vars

\* C21 amended: deleting the only key of a one-node tree sets root to null;
\* the trace holds one removal action of a childless node (tag 8) and one
\* shape-change action (tag 5) whose flag is not set; on a RedBlack tree it
\* carries no copy, on a Bst or Avl tree it carries a copy of the emptied
\* tree, which has no node.
C21_SoleKeyDeleteEmptySnapshot ==
  [][(Cardinality(DOMAIN heap) = 1 /\ returnsFrom("DELETE")) =>
       /\ tree'.root = Null
       /\ count(probe'.log, {8}) = 1
       /\ count(probe'.log, {5}) = 1
       /\ \A i \in 1..Len(probe'.log) :
            probe'.log[i].id = 5 =>
              /\ Len(probe'.log[i].args) = 2
              /\ probe'.log[i].args[1] = FALSE
              /\ probe'.log[i].args[2].root = Null
              /\ probe'.log[i].args[2].nodes = EmptyHeap
              /\ probe'.log[i].args[2].null = (tree.kind = "RedBlack")]_vars

\* The delete of the only key of an Avl tree has returned.
C21_Witness ==
  /\ tree.kind = "Avl"
  /\ probe.op = "DELETE"
  /\ tree.root = Null
  /\ hasAction(probe.log, {8})
  /\ snapshotActions(probe.log) # {}

\* C22: every left rotation is recorded as a rotate-left action and every
\* right rotation as a rotate-right action, the payload naming the old
\* subtree root first and the new one second.  A left rotation lifts the
\* right child, whose key is the larger one, a right rotation the left child.
C22_RotationTagMatchesDirection ==
  \A i \in 1..Len(probe.log) :
    probe.log[i].id \in {RotateLeftTag, RotateRightTag} =>
      probe.log[i].id = IF probe.log[i].args[1] < probe.log[i].args[2]
                        THEN RotateLeftTag ELSE RotateRightTag

\* C23: after every insert or delete on an Avl tree, the cached height of
\* every node is its true height.
C23_AvlCachedHeightIsTrueHeight ==
  tree.kind = "Avl" =>
    \A n \in DOMAIN heap : heap[n].height = Tree_getHeight(heap, n)

\* An Avl delete spliced out a node with one child and then rotated.
C23_Witness ==
  /\ tree.kind = "Avl"
  /\ probe.op = "DELETE"
  /\ hasAction(probe.log, {7})
  /\ probe.nrot >= 1

isBalanceAction(a) == a.id \in {12, 13}

isRotation(a) == a.id \in {14, 15}

\* Position of the last balance action of the log before position i, 0 if
\* there is none.
lastBalanceBefore(log, i) ==
  IF \E j \in 1..(i - 1) : isBalanceAction(log[j])
  THEN CHOOSE j \in 1..(i - 1) :
         /\ isBalanceAction(log[j])
         /\ \A k \in (j + 1)..(i - 1) : ~isBalanceAction(log[k])
  ELSE 0

\* The rotation at position i is explained by the balance-violation action
\* at position j: it is the rotation at the node that action names, or the
\* first rotation of a double rotation at that node, which rotates the child
\* and names that node as the parent.
explainedBy(log, i, j) ==
  /\ j > 0
  /\ log[j].id = 13
  /\ LET earlier == {k \in (j + 1)..(i - 1) : isRotation(log[k])}
     IN \/ earlier = {} /\ log[i].args[1] = log[j].args[1]
        \/ /\ earlier = {}
           /\ log[i].args[4] = log[j].args[1]
           /\ \E k \in (i + 1)..Len(log) :
                /\ isRotation(log[k])
                /\ lastBalanceBefore(log, k) = j
        \/ /\ Cardinality(earlier) = 1
           /\ log[i].args[1] = log[j].args[1]

\* C24: in every Avl trace each rotation action comes after a
\* balance-violation action (tag 13) naming the unbalanced node, with no
\* other balance action between them, the two rotation actions of a double
\* rotation sharing one; no rotation follows a balance-ok action (tag 12)
\* before the next balance action, and no node is named by both.
C24_RotationFollowsViolation ==
  (tree.kind = "Avl" /\ probe.op # "") =>
    /\ \A i \in 1..Len(probe.log) :
         isRotation(probe.log[i]) =>
           explainedBy(probe.log, i, lastBalanceBefore(probe.log, i))
    /\ \A i, j \in 1..Len(probe.log) :
         (probe.log[i].id = 12 /\ probe.log[j].id = 13) =>
           probe.log[i].args[1] # probe.log[j].args[1]

\* An Avl insert with a double rotation below a node found balanced before.
C24_Witness ==
  /\ tree.kind = "Avl"
  /\ probe.op = "INSERT"
  /\ count(probe.log, {14, 15}) = 2
  /\ count(probe.log, {13}) = 1
  /\ hasAction(probe.log, {12})

carriesSnapshot(a) == (a.id = 5 /\ Len(a.args) = 2) \/ isRotation(a)

snapshotAt(a) == IF a.id = 5 THEN a.args[2] ELSE a.args[5]

\* The copy is closed under its own links: the root and every child link
\* lead to a node of the copy, and no node of the copy has a parent.
isDetached(copy) ==
  /\ copy.null => (copy.root = Null /\ copy.nodes = EmptyHeap)
  /\ copy.root \in DOMAIN copy.nodes \cup {Null}
  /\ (copy.root = Null) = (copy.nodes = EmptyHeap)
  /\ \A n \in DOMAIN copy.nodes :
       /\ copy.nodes[n].parent = Null
       /\ copy.nodes[n].left \in DOMAIN copy.nodes \cup {Null}
       /\ copy.nodes[n].right \in DOMAIN copy.nodes \cup {Null}

\* C25: every tree snapshot in an action is a detached copy, all links inside
\* the copy and every parent field null, and a snapshot emitted earlier in a
\* call is not changed by a later rotation of the live tree: it still differs
\* from the snapshot taken after that rotation.
C25_SnapshotsAreDetachedCopies ==
  /\ \A i \in 1..Len(actionList) :
       carriesSnapshot(actionList[i]) => isDetached(snapshotAt(actionList[i]))
  /\ \A i, j \in 1..Len(probe.log) :
       (i < j /\ carriesSnapshot(probe.log[i]) /\ isRotation(probe.log[j])) =>
         snapshotAt(probe.log[i]) # snapshotAt(probe.log[j])

\* A RedBlack call with two rotations, the live nodes holding parent links.
C25_Witness ==
  /\ tree.kind = "RedBlack"
  /\ count(probe.log, {14, 15}) = 2
  /\ \E i \in 1..Len(actionList) :
       /\ isRotation(actionList[i])
       /\ Cardinality(DOMAIN snapshotAt(actionList[i]).nodes) >= 3
  /\ \E n \in DOMAIN heap : heap[n].parent # Null

keysOfCopy(copy) == {copy.nodes[n].value : n \in DOMAIN copy.nodes}

\* C26: after a Bst or Avl delete of a present key the trace holds exactly
\* one shape-change action (tag 5); its snapshot holds exactly the keys of
\* the tree after the delete, and for Bst it equals the final tree.
C26_OneShapeChangeWithFinalKeys ==
  (tree.kind \in {"Bst", "Avl"} /\ probe.op = "DELETE") =>
    /\ count(probe.log, {5}) = 1
    /\ \A i \in 1..Len(probe.log) :
         probe.log[i].id = 5 =>
           /\ Len(probe.log[i].args) = 2
           /\ ~probe.log[i].args[2].null
           /\ keysOfCopy(probe.log[i].args[2]) = present
           /\ tree.kind = "Bst" =>
                probe.log[i].args[2] = getTreeCopy(enter, TRUE)

\* An Avl delete of a node with two children that is followed by a rotation.
C26_Witness ==
  /\ tree.kind = "Avl"
  /\ probe.op = "DELETE"
  /\ hasAction(probe.log, {10})
  /\ hasAction(probe.log, {14, 15})
  /\ count(probe.log, {5}) = 1

\* C27: after every RedBlack insert or delete the parent references agree
\* with the child links: the root has no parent, every child names the node
\* that links to it, and no parent reference leads out of the tree.
C27_ParentLinksAgree ==
  tree.kind = "RedBlack" =>
    /\ tree.root # Null => heap[tree.root].parent = Null
    /\ \A n \in DOMAIN heap :
         /\ heap[n].left # Null => heap[heap[n].left].parent = n
         /\ heap[n].right # Null => heap[heap[n].right].parent = n
         /\ heap[n].parent \in DOMAIN heap \cup {Null}

\* A RedBlack delete whose rotation moved a subtree to its new parent.
C27_Witness ==
  /\ tree.kind = "RedBlack"
  /\ probe.op = "DELETE"
  /\ \E i \in 1..Len(probe.log) :
       /\ isRotation(probe.log[i])
       /\ probe.log[i].args[3] # NoKey
  /\ \E n \in DOMAIN heap : heap[n].parent # Null

\* Number of nodes on the search path from node to the node holding value.
RECURSIVE depthOfKey(_, _, _)
depthOfKey(h, node, value) ==
  IF node = Null \/ h[node].value = value THEN 1
  ELSE 1 + depthOfKey(h, IF value < h[node].value THEN h[node].left
                         ELSE h[node].right, value)

\* C28: every insert of an absent key and every delete of a present key
\* returns, without an exception and with one end action, after at most as
\* many descents as the tree is high; each pass of the fixInsert or deleteFix
\* loop that hands on a pointer (tag 23) names a node strictly closer to the
\* root than the passes before did or is the last pass, and the deleteFix
\* pass that sets the pointer to the root (tag 31) is the last one.
C28_CallsReturnAndLoopsAdvance ==
  [][(returnsFrom("INSERT") \/ returnsFrom("DELETE")) =>
       /\ ~probe'.err
       /\ count(probe'.log, {32}) = 1
       /\ count(probe'.log, {3, 4}) <= Tree_getHeight(heap, tree.root)
       /\ \A i, j \in 1..Len(probe'.log) :
            (i < j /\ probe'.log[i].id = 23 /\ probe'.log[j].id = 23) =>
              \/ depthOfKey(heap', tree'.root, probe'.log[j].args[1])
                   < depthOfKey(heap', tree'.root, probe'.log[i].args[1])
              \/ \A k \in (j + 1)..Len(probe'.log) :
                   probe'.log[k].id \notin {20, 21, 22, 23, 27, 28, 30, 31}
       /\ \A i, j \in 1..Len(probe'.log) :
            (i < j /\ probe'.log[i].id = 31) =>
              probe'.log[j].id \notin {23, 27, 28, 30, 31}]_vars

\* A deleteFix loop of two passes, and a fixInsert loop of two passes.
C28_Witness ==
  /\ tree.kind = "RedBlack"
  /\ probe.op = "DELETE"
  /\ ~probe.err
  /\ count(probe.log, {23, 31}) >= 2

C28_WitnessInsert ==
  /\ tree.kind = "RedBlack"
  /\ probe.op = "INSERT"
  /\ ~probe.err
  /\ count(probe.log, {23}) >= 2

\* The descend and append actions of the trace R.log of an insert of value:
\* tag 3 exactly for a strictly smaller key, the node appended on the side of
\* the last descent, below the node that descent names.
descentMatchesComparison(R, value) ==
  /\ \A i \in 1..Len(R.log) :
       R.log[i].id \in {3, 4} =>
         /\ R.log[i].args[1] = value
         /\ (R.log[i].id = 3) = (value < R.log[i].args[2])
  /\ count(R.log, {1, 2}) = 1
  /\ \A i \in 1..Len(R.log) :
       R.log[i].id \in {1, 2} =>
         \E j \in 1..(i - 1) :
           /\ R.log[j].id = R.log[i].id + 2
           /\ R.log[j].args = R.log[i].args
           /\ \A k \in (j + 1)..(i - 1) : R.log[k].id \notin {3, 4}

\* An insert of a key the tree h holds passes the node with that key to the
\* right: the trace says so, and in a Bst the new node is in its right
\* subtree.
equalKeyGoesRight(R, h, kind, value) ==
  /\ hasAction(R.log, {4})
  /\ \E i \in 1..Len(R.log) : R.log[i] = Action(4, <<value, value>>)
  /\ kind = "Bst" =>
       \A old \in DOMAIN h, new \in DOMAIN R.h \ DOMAIN h :
         h[old].value = value => new \in nodesOf(R.h, R.h[old].right)

\* C29: on every reachable tree of every engine, an insert descends left and
\* emits tag 3 only at a node with a strictly greater key; at every other
\* node, one with an equal key included, it descends right and emits tag 4.
C29_NotSmallerGoesRight ==
  tree.root # Null =>
    \A value \in Keys \cup present :
      \A R \in {insert(enter, tree.kind, value)} :
        /\ descentMatchesComparison(R, value)
        /\ value \in present =>
             equalKeyGoesRight(R, heap, tree.kind, value)

\* A RedBlack tree of three keys or more whose root key, inserted again,
\* passes the root to the right and comes to a node with a greater key.
C29_Witness ==
  /\ tree.kind = "RedBlack"
  /\ tree.root # Null
  /\ Cardinality(present) >= 3
  /\ \E R \in {insert(enter, "RedBlack", heap[tree.root].value)} :
       /\ \E i \in 1..Len(R.log) :
            R.log[i]
              = Action(4, <<heap[tree.root].value, heap[tree.root].value>>)
       /\ hasAction(R.log, {3})

\* The keys of the nodes passed on the way from node down to the node that
\* holds value, that node left out.
RECURSIVE pathTo(_, _, _)
pathTo(h, node, value) ==
  IF node = Null \/ h[node].value = value THEN <<>>
  ELSE <<h[node].value>>
         \o pathTo(h, IF value < h[node].value THEN h[node].left
                      ELSE h[node].right, value)

\* C30: the trace of a Bst insert into a non-empty tree starts with one
\* descend action per node on the path from the root to the new node's
\* parent, in that order, tag 3 at a node with a greater key and tag 4
\* otherwise; the append action comes next, tag 1 for a left child and 2 for
\* a right child, naming the new key and its parent; the trace holds no
\* other descend or append action.
C30_BstInsertTraceFollowsPath ==
  (tree.kind = "Bst" /\ probe.op = "INSERT" /\ Cardinality(DOMAIN heap) >= 2)
    => \A path \in {pathTo(heap, tree.root, probe.value)} :
         /\ Len(path) >= 1
         /\ Len(probe.log) > Len(path)
         /\ \A i \in 1..Len(path) :
              probe.log[i] = Action(IF probe.value < path[i] THEN 3 ELSE 4,
                                    <<probe.value, path[i]>>)
         /\ probe.log[Len(path) + 1]
              = Action(IF probe.value < path[Len(path)] THEN 1 ELSE 2,
                       <<probe.value, path[Len(path)]>>)
         /\ \A n \in DOMAIN heap :
              heap[n].value = path[Len(path)] =>
                /\ heap[n][IF probe.log[Len(path) + 1].id = 1
                           THEN "left" ELSE "right"] # Null
                /\ heap[heap[n][IF probe.log[Len(path) + 1].id = 1
                                THEN "left" ELSE "right"]].value = probe.value
         /\ count(probe.log, {3, 4}) = Len(path)
         /\ count(probe.log, {1, 2}) = 1

\* A Bst insert three levels down that turned left and right on its way.
C30_Witness ==
  /\ tree.kind = "Bst"
  /\ probe.op = "INSERT"
  /\ Len(pathTo(heap, tree.root, probe.value)) >= 3
  /\ hasAction(probe.log, {3})
  /\ hasAction(probe.log, {4})

\* C31: no call throws: no rotation is invoked on a node without the child
\* that becomes the subtree root and deleteFix reads no null sibling, so the
\* tree a call leaves holds exactly the keys inserted and not deleted, in
\* order.
C31_NoCallAborts ==
  /\ ~probe.err
  /\ \A keys \in {inOrder(heap, tree.root)} :
       valuesOf(keys) = present /\ isStrictlyIncreasing(keys)

\* A RedBlack delete whose deleteFix read the sibling and rotated, and an
\* Avl delete that rotated.
C31_Witness ==
  /\ tree.kind = "RedBlack"
  /\ probe.op = "DELETE"
  /\ hasAction(probe.log, {27, 30, 31})
  /\ hasAction(probe.log, {14, 15})

C31_WitnessAvl ==
  /\ tree.kind = "Avl"
  /\ probe.op = "DELETE"
  /\ hasAction(probe.log, {14, 15})

\* C32: a RedBlack delete that removes a black node whose replacement is
\* black runs deleteFix from the replacement's position: its node argument
\* is the child now in the slot, or null for an empty slot, and its parent
\* argument the parent of that slot, never the removed node.
C32_DeleteFixStartsAtReplacement ==
  (tree.kind = "RedBlack" /\ probe.op = "DELETE") => ~probe.stale

\* A RedBlack delete of a black leaf: deleteFix ran from the emptied slot.
C32_Witness ==
  /\ tree.kind = "RedBlack"
  /\ probe.op = "DELETE"
  /\ hasAction(probe.log, {24})
  /\ hasAction(probe.log, {23, 27, 28, 30, 31})
  /\ ~probe.stale

\* The keys met from node down the left links, node's own key first.
RECURSIVE leftSpine(_, _)
leftSpine(h, node) ==
  IF node = Null THEN <<>>
  ELSE <<h[node].value>> \o leftSpine(h, h[node].left)

\* C33: on every non-null subtree of a reachable tree getMinValue returns
\* the key of the leftmost node, which is the smallest key of the subtree,
\* emits one tag-9 action per node of the left spine, top down, each naming
\* that node's key, and changes no node and no list but the action list.
C33_GetMinValueWalksLeftSpine ==
  \A node \in DOMAIN heap :
    \A R \in {Tree_getMinValue(enter, node)} :
      \A spine \in {leftSpine(heap, node)} :
        /\ R.ret = spine[Len(spine)]
        /\ R.ret = Head(inOrder(heap, node))
        /\ R.log = [i \in 1..Len(spine) |-> Action(9, <<spine[i]>>)]
        /\ R.al = actionList \o R.log
        /\ R.h = heap
        /\ R.root = tree.root
        /\ ~R.err

\* A delete of a node with two children walked two nodes or more, and the
\* tree left has a subtree whose left spine is three nodes long.
C33_Witness ==
  /\ probe.op = "DELETE"
  /\ hasAction(probe.log, {6})
  /\ count(probe.log, {9}) >= 2
  /\ \E node \in DOMAIN heap :
       /\ Len(leftSpine(heap, node)) >= 3
       /\ Len(Tree_getMinValue(enter, node).log) >= 3

\* C34: whenever an input (add, delete, create, clear) is enabled,
\* Global.actionList is empty and no call of animate or enableNext is still
\* to come, so no new insert or delete interleaves with a playback.
C34_InputsOnlyWhenIdle ==
  ~inputDisabled => actionList = <<>> /\ pending = NoPending

\* C35: playback never gets stuck.  A call of animate that pops an action
\* leaves a call of animate or enableNext to come or the Next button
\* enabled, and once the inputs are disabled the action list eventually is
\* empty with the inputs enabled again.
C35_PlaybackEnds ==
  /\ [][Len(actionList') < Len(actionList) => toCome' > 0]_vars
  /\ inputDisabled ~> (actionList = <<>> /\ ~inputDisabled)

\* A delete is being played: actions were popped, the Next button was
\* enabled by a tag played at once, and the end action is still in the list.
C35_Witness ==
  /\ inputDisabled /\ pending.next
  /\ probe.op = "DELETE"
  /\ hasAction(probe.log, {24, 26})
  /\ 0 < Len(actionList) /\ Len(actionList) < Len(probe.al)

\* A black node with exactly one child whose child is black too.
blackWithBlackOnlyChild(h, n) ==
  /\ h[n].colour = 0
  /\ (h[n].left = Null) # (h[n].right = Null)
  /\ \A c \in {h[n].left, h[n].right} \ {Null} : h[c].colour = 0

\* C36: in a RedBlack tree the only child of a black node is red, so a
\* delete never takes the branch for a removed black node with a non-null
\* black replacement (tag 16) and deleteFix is not entered from the removed
\* node.
C36_BlackReplacementBranchIsDead ==
  tree.kind = "RedBlack" =>
    /\ \A n \in DOMAIN heap : ~blackWithBlackOnlyChild(heap, n)
    /\ probe.op = "DELETE" => ~hasAction(probe.log, {16}) /\ ~probe.stale

\* A black node with one child was removed (its red child took its place,
\* tag 25) and the tree still has a black node with one child.
C36_Witness ==
  /\ tree.kind = "RedBlack" /\ probe.op = "DELETE"
  /\ hasAction(probe.log, {25})
  /\ \E n \in DOMAIN heap :
       heap[n].colour = 0 /\ (heap[n].left = Null) # (heap[n].right = Null)

\* C37: a RedBlack insert into a non-empty tree never emits tag 21 or tag
\* 18 and never takes the first guard of fixInsert: tag 17 is emitted only
\* after the fix-up pointer moved (tag 23), and the fix-up ends with exactly
\* one terminal action, tag 17 or tag 19, right before the end action.
C37_OnlyRootOrBlackParentEnding ==
  (tree.kind = "RedBlack" /\ probe.op = "INSERT"
     /\ hasAction(probe.log, {16})) =>
    /\ ~hasAction(probe.log, {18, 21})
    /\ \A i \in 1..Len(probe.log) :
         probe.log[i].id = 17 => i > 1 /\ probe.log[i - 1].id = 23
    /\ count(probe.log, {17, 19}) = 1
    /\ \E i \in 1..Len(probe.log) - 1 :
         probe.log[i].id \in {17, 19} /\ probe.log[i + 1].id = 32

\* An insert whose fix-up recoloured up to the root (tags 20, 23, 17).
C37_Witness ==
  /\ tree.kind = "RedBlack" /\ probe.op = "INSERT"
  /\ hasAction(probe.log, {20}) /\ hasAction(probe.log, {23})
  /\ hasAction(probe.log, {17})

\* An insert of an inner child: the fix-up rotated at the parent and at the
\* grandparent (tag 22) and ended below a black parent (tag 19).
C37_WitnessRotation ==
  /\ tree.kind = "RedBlack" /\ probe.op = "INSERT"
  /\ hasAction(probe.log, {22}) /\ hasAction(probe.log, {19})
  /\ count(probe.log, {RotateLeftTag, RotateRightTag}) = 2

====
